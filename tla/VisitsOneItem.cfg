\* Two requests contend for one item whose price and discount change, under the
\* fairness of handlers and row locks.
CONSTANTS
    r1 = r1  r2 = r2  i1 = i1  i2 = i2
    owner = owner  desk = desk  stylist = stylist  anna = anna  bela = bela
    None = None
    Requests = {r1, r2}
    ItemIds = {i1}
    Actors = {owner}
    Role <- OwnerAlone
    Profile <- NoProfiles
    Providers = {}
    Prices = {1, 2}
    Discounts = {0, 2}
    MaxAmount = 2
SPECIFICATION FairSpec
INVARIANT ItemMoney
PROPERTY RequestsFinish
CHECK_DEADLOCK FALSE
