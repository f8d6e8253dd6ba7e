\* cJSON: trees of four cells with up to three lists, references, texts and names;
\* texts of up to nine tokens, nested two deep; strings of three units each; texts of
\* five characters to minify.  The scenarios of a websocketpp connection, three
\* frames, handshakes in two reads and the plugin files are in the modules.
SPECIFICATION PartSpec
CONSTANTS
  Scenarios <- ConnectionScenarios
  Cells = {c1, c2, c3, c4}
  Nil = Nil
  Keys = {"a", "A"}
  Alike = {{"a", "A"}}
  NoKey = "none"
  MaxLeft = 3
  MaxFeatures = 3
  NestingLimit = 2
  IntMax = 24
  MaxDead = 3
  MaxText = 9
  Plain = {65, 31, 9}
  Codes = {0, 1, 127, 128, 2047, 2048, 55295, 55296, 56319, 56320, 57343, 57344, 65535}
  MaxUnits = 3
  SmallIntMax = 3
INVARIANTS
  JsonTreesSound
  JsonTextRight
  ConnectionReported
  ConnectionInTurn
  FramesRight
  HandshakeRight
  
PROPERTIES
  JsonForestSpec
SYMMETRY Addresses
CHECK_DEADLOCK FALSE
