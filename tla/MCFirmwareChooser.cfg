SPECIFICATION Spec
CONSTANTS
  Products = {"train", "robot"}
  Names = {"f", "g"}
  Listed <- MCListed
  TooBig <- MCTooBig
  Fetches = {1, 2}
INVARIANTS TypeOK ShownIsFile ChooserHasData
PROPERTY LoadingEnds
