\* Two items of every content, under every combination of the options, with a
\* clock that passes the end of two certificates.
SPECIFICATION CliSpec
CONSTANTS
  Items = {1, 2}
  None = 0
  LastInstant = 2
INVARIANTS
  StatusExact
  OutputExact
  ExpiryAgrees
  VerdictsExact
PROPERTY NoOutputAfterFailure
