SPECIFICATION Spec
CONSTANTS
  Nul = Nul
  Quote = "quote"
  Comma = ","
  a = a
  b = b
  A = A
  Date = Date
  Blank = Blank
  AnyText = AnyText
  AnyChar = AnyChar
  ApelidoLen = 2
  NomeLen = 2
  ItemLen = 3
  MaxItems = 2
  MaxPessoas = 2
  MaxPosts = 3
  SqlRoom = 23
  DateOf <- Dates
  FullDates <- LongDates
  Uuids <- SomeUuids
  Lower <- Small
  Terms <- SomeTerms
  Bodies <- Everything
INVARIANTS
  PessoaTypeOK
  StringsEnd
  SearchShowsAsSent
  SearchFindsOnly
  LookupShowsPrefix
  AnsweredTruly
  RootIsFreed
  StrayOnlyWhenEmpty
  RepeatsStayInField
  SearchFits
  ItemsAreSplit
  AnswersAreJson
CHECK_DEADLOCK FALSE
