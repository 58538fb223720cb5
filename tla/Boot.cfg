SPECIFICATION FairSpec
CONSTANTS
  Callers = {c1}
  Entries = {main, view, style}
  UrlName = main
  Faults = TRUE
  Crashes = TRUE
  Bundles <- Shipped
  Main = main
  None = None
INVARIANT ResolvedReadable
PROPERTY NoSilentFailure
PROPERTY CompleteStable
