\* Two requests at a time: are the totals right once both are answered?
CONSTANTS
    r1 = r1  r2 = r2  i1 = i1  i2 = i2
    owner = owner  desk = desk  stylist = stylist  anna = anna  bela = bela
    None = None
    Requests = {r1, r2}
    ItemIds = {i1, i2}
    Actors = {owner}
    Role <- OwnerAlone
    Profile <- NoProfiles
    Providers = {}
    Prices = {1}
    Discounts = {0}
    MaxAmount = 2
SPECIFICATION Spec
INVARIANT TotalsMatchAtRest
CHECK_DEADLOCK FALSE
