SPECIFICATION ProcessSpec
CONSTANTS
  Fragment = {"head", "foot.", "some words", "an end.", "long", "***", "uri", "entry", "garbage", "other"}
  Shape <- Shapes
  Uri = "uri"
  Entry = "entry"
  Garbage = "garbage"
  MaxPages = 3
  MaxSlides = 2
  MaxSheets = 1
  MaxRows = 3
  Window = 2
  MaxEntries = 2
  MaxExpansion = 50
  MinPages = 3
  EdgeLines = 2
  MinChars = 20
  MaxNoise = 700
  BodyWords = 8
  BodyChars = 80
  MaxChars = 12
  MaxBytes = 10
  Request <- Requests
  Guessable = {"text", "markdown", "html", "csv", "pdf", "docx", "pptx", "xlsx", "zip", "image"}
  Header = {"", "pdf", "octet"}
  Conversion <- Conversions
INVARIANTS
  ProcessTypeOK
  RouteFits
  TextKept
  ChunksCover
CHECK_DEADLOCK FALSE
