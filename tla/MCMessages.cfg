SPECIFICATION Spec
CONSTANTS
  Cap = 22
  Files <- MCFiles
  SentAliases = {"Sent"}
  DraftsAliases = {"Drafts"}
  DateText <- MCDateText
  Meaning <- MCMeaning
  Now <- MCNow
  ConverterDates <- MCConverterDates
INVARIANTS
  MailTypeOK
  TextKept
  FieldsKept
  RepairsWhatIsReported
  DateIsTheMails
  DatedPlausibly
  LossNeverCounts
CHECK_DEADLOCK FALSE
