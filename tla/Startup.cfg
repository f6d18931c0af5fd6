\* Every way to configure two URLs, three kinds of input and five device lists.
CONSTANTS
  None = None
  Unparsable = Unparsable
  Contained <- PartOf
  Continued <- Queries
  ConfigFiles <- Files
  Environments <- Variables
  Systems = {"windows", "linux"}
  Listings <- Devices
  OtherURLs <- Others
  Answers = {1, 2}
  MaxClock = 1
SPECIFICATION Spec
INVARIANTS EveryStreamIsSentOnce OnlyCredentialsFailLate EveryUrlNamesItsStream
PROPERTIES LaunchesAsConfigured
