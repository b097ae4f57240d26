SPECIFICATION FairSpec

CONSTANTS
  None = NoValue
  File = {"body", "picture", "tax", "cover", "form", "bad", "slip"}
  Kind <- TheKind
  Mail = {"forms", "answer", "large"}
  Files <- TheFiles
  Thread <- TheThread
  Loose = {"cover", "form", "bad", "slip"}
  Script = {s1, s2}
  Request = {r1, r2}
  Authorized = TRUE
  MAX_FILES = 3
  Listed = 1
  Settings <- TheSettings

INVARIANT ReadMailsKept
INVARIANT OnceWithoutFaults
INVARIANT StoredIsListed
INVARIANT SuccessWasTold
INVARIANT RetriesCounted
PROPERTY EveryMailHandled
