SPECIFICATION CnabSpec
CONSTANTS
  p1 = p1
  p2 = p2
  p3 = p3
  Payments = {p1, p2, p3}
  OurNumber <- MCOurNumber
  Amount <- MCAmount
  DocumentType <- MCDocumentType
  HeaderWidths = {3, 4}
  AmountCeiling = 1000
  Codes = {"00", "BD", "AE", "ZZ"}
  MaxCodes = 2
INVARIANTS RecordsAreWhole RowsAreTheAnswers
CHECK_DEADLOCK FALSE
