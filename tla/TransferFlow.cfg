SPECIFICATION FairSpec
CONSTANTS
  Wallets = {Alice, Bob}
  Forms = {Gift, Save}
  Deposits = {Save}
  Jobs = {1, 2}
  None = None
  MaxSends = 1
  MaxChanges = 2
  MaxReviews = 2
INVARIANTS TypeOK IdentityIsOwned OnlyOwnerSends SignsWhatIsShown BalanceIsOwn BalanceIsFresh
PROPERTIES FlowSettles ChoiceIsFollowed
