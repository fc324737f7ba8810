SPECIFICATION Spec
CONSTANTS
  Devices = {d1, d2}
  Height = 3
  RootHistory = 2
  MaxTxs = 5
  MaxOthers = 0
  Opening = {3, 4}
  Deposits = {}
  Payments = {1, 3}
  DepositBps = 2000
  WithdrawBps = 2500
  RentFee = 1
  FieldSize = 101
  Shapes = {}
INVARIANT SpentOnce
PROPERTY PaysAsQuoted
CHECK_DEADLOCK FALSE
SYMMETRY DeviceSymmetry
