SPECIFICATION Spec
CONSTANTS
  Devices = {d1, d2}
  Height = 3
  RootHistory = 2
  MaxTxs = 5
  MaxOthers = 1
  Opening = {3, 4}
  Deposits = {7}
  Payments = {3, 7, 8}
  DepositBps = 2000
  WithdrawBps = 2500
  RentFee = 1
  FieldSize = 101
  Shapes = {"batched", "wrapped"}
INVARIANTS
  TypeOK
  ProvenRootsAreReal
  PreparedVerifies
  PickIsComplete
  SettledBalanceIsTrue
  RowsAreLeaves
PROPERTY PaysAsQuoted
CHECK_DEADLOCK FALSE
SYMMETRY DeviceSymmetry
