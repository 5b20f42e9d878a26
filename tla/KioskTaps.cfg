\* Two members, lost requests and answers, a menu that changes.
SPECIFICATION FairSpec
CONSTANTS
  p1 = p1
  p2 = p2
  Products = {p1, p2}
  Menus <- TwoMenus
  NoProduct = NoProduct
  Cards = {c1, c2}
  NoCard = NoCard
  Refreshes = {r1}
  MaxQty = 1
  Slots = {s1}
  Lossy = TRUE
INVARIANTS ChargesShown UnaskedOnlyIfGivenUp
PROPERTIES ReloadCutsNothing TakesCardsAgain
