SPECIFICATION Spec
CONSTANTS
  Nul = Nul
  Quote = "quote"
  Comma = ","
  a = a
  b = b
  A = A
  Date = Date
  Blank = Blank
  AnyText = AnyText
  AnyChar = AnyChar
  ApelidoLen = 2
  NomeLen = 2
  ItemLen = 3
  MaxItems = 2
  MaxPessoas = 2
  MaxPosts = 1
  SqlRoom = 23
  DateOf <- Dates
  FullDates <- LongDates
  Uuids <- SomeUuids
  Lower <- Small
  Terms <- SomeTerms
  Bodies <- Usual
INVARIANT LookupShowsAsSent
CHECK_DEADLOCK FALSE
