\* Two managers, two requests at a time over two items that together can overflow.
CONSTANTS
    r1 = r1  r2 = r2  i1 = i1  i2 = i2
    owner = owner  desk = desk  stylist = stylist  anna = anna  bela = bela
    None = None
    Requests = {r1, r2}
    ItemIds = {i1, i2}
    Actors = {owner, desk}
    Role <- OwnerAndDesk
    Profile <- NoProfiles
    Providers = {}
    Prices = {2}
    Discounts = {0, 2}
    MaxAmount = 3
SPECIFICATION Spec
INVARIANTS MoneySound Timeline WorkNeedsStart PaymentAudited
SYMMETRY Interchangeable
CHECK_DEADLOCK FALSE
