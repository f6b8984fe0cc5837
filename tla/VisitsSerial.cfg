\* One request at a time, by an owner and by a provider who is assigned items.
CONSTANTS
    r1 = r1  r2 = r2  i1 = i1  i2 = i2
    owner = owner  desk = desk  stylist = stylist  anna = anna  bela = bela
    None = None
    Requests = {r1}
    ItemIds = {i1, i2}
    Actors = {owner, stylist}
    Role <- OwnerAndStylist
    Profile <- StylistIsAnna
    Providers = {anna}
    Prices = {2}
    Discounts = {0, 1}
    MaxAmount = 3
SPECIFICATION Spec
INVARIANTS TotalsMatch CompletedWork
PROPERTY LifecycleSpec
CHECK_DEADLOCK FALSE
