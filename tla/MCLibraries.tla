---------------------------- MODULE MCLibraries ----------------------------
(***************************************************************************)
(* The libraries that the program is built with, one in each behaviour:      *)
(* part says which, and the others rest.  The connection is the module        *)
(* extended; con, user and frames are its variables.                        *)
(***************************************************************************)
EXTENDS WsConnection, TLC

CONSTANTS
  Cells, Nil, Keys, Alike, NoKey, MaxLeft, MaxFeatures,      \* CJsonTree
  NestingLimit, IntMax, MaxDead, MaxText,                    \* CJsonText
  Plain, Codes, MaxUnits, SmallIntMax                        \* CJsonScalars

VARIABLES
  part,
  mem, held,                                                 \* CJsonTree
  text,                                                      \* CJsonText
  units, pair,                                               \* CJsonScalars
  json,                                                      \* CJsonMinify
  server, rx, wire, sent, inbox,                             \* WsFrames
  hs, stream,                                                \* WsHandshake
  file, data, answer                                         \* PluginSample

Tree == INSTANCE CJsonTree
Text == INSTANCE CJsonText
Scalars == INSTANCE CJsonScalars WITH IntMax <- SmallIntMax

Minify == INSTANCE CJsonMinify WITH MaxChars <- 5

Scenario(serves, proxied, todo, n, faults) ==
  [server |-> serves, proxied |-> proxied, todo |-> todo, frames |-> n, faults |-> faults]

ConnectionScenarios ==
  {Scenario(FALSE, FALSE, {}, 2, {}), Scenario(FALSE, TRUE, {}, 0, {}),
   Scenario(FALSE, FALSE, {"close"}, 0, {"race"}), Scenario(FALSE, FALSE, {"send"}, 1, {"race"}),
   Scenario(FALSE, FALSE, {}, 0, {"extension"}), Scenario(FALSE, FALSE, {"ping"}, 1, {}),
   Scenario(FALSE, FALSE, {"pause", "resume"}, 1, {}),
   Scenario(TRUE, FALSE, {"respond"}, 0, {}), Scenario(TRUE, FALSE, {"close"}, 1, {})}

Frames == INSTANCE WsFrames WITH
  SizeBasic <- 3, LengthBase <- 8, ShortField <- 1, LongField <- 2, MaxMessageSize <- 5,
  Payloads <- {<<>>, <<65>>, <<195>>, <<169, 65>>, <<65, 65, 65, 65>>}, MaxFrames <- 3

Handshake == INSTANCE WsHandshake WITH MaxHeaderSize <- 78, MaxBodySize <- 10

Sample == INSTANCE PluginSample

treeVars == <<mem, held>>
scalarVars == <<units, pair>>
frameVars == <<server, rx, wire, sent, inbox>>
handshakeVars == <<hs, stream>>
sampleVars == <<file, data, answer>>

Parts == {"tree", "text", "scalars", "minify", "connection", "frames", "handshake",
          "update"}

PartInit ==
  /\ part \in Parts
  /\ Tree!Init /\ Text!Init /\ Scalars!Init /\ Minify!Init
  /\ IF part = "connection" THEN Init
     ELSE /\ con = New(FALSE, FALSE) /\ frames = 0
          /\ user = [todo |-> {}, doing |-> "none", faults |-> {}]
  /\ IF part = "frames" THEN Frames!Init
     ELSE server = FALSE /\ rx = "none" /\ wire = <<>> /\ sent = <<>> /\ inbox = <<>>
  /\ IF part = "handshake" THEN Handshake!Init ELSE hs = "none" /\ stream = <<>>
  /\ Sample!Init

PartNext ==
  /\ UNCHANGED part
  /\ \/ /\ part = "tree" /\ Tree!Next
        /\ UNCHANGED <<text, scalarVars, json, vars, frameVars, handshakeVars, sampleVars>>
     \/ /\ part = "text" /\ Text!Next
        /\ UNCHANGED <<treeVars, scalarVars, json, vars, frameVars, handshakeVars, sampleVars>>
     \/ /\ part = "scalars" /\ Scalars!Next
        /\ UNCHANGED <<treeVars, text, json, vars, frameVars, handshakeVars, sampleVars>>
     \/ /\ part = "minify" /\ Minify!Next
        /\ UNCHANGED <<treeVars, text, scalarVars, vars, frameVars, handshakeVars, sampleVars>>
     \/ /\ part = "connection" /\ Next
        /\ UNCHANGED <<treeVars, text, scalarVars, json, frameVars, handshakeVars, sampleVars>>
     \/ /\ part = "frames" /\ Frames!Next
        /\ UNCHANGED <<treeVars, text, scalarVars, json, vars, handshakeVars, sampleVars>>
     \/ /\ part = "handshake" /\ Handshake!Next
        /\ UNCHANGED <<treeVars, text, scalarVars, json, vars, frameVars, sampleVars>>
     \/ /\ part = "update" /\ Sample!Next
        /\ UNCHANGED <<treeVars, text, scalarVars, json, vars, frameVars, handshakeVars>>

PartSpec ==
  PartInit /\ [][PartNext]_<<part, treeVars, text, scalarVars, json, vars, frameVars, handshakeVars,
                     sampleVars>>

\* The addresses of cells are interchangeable; a free one is taken by CHOOSE, and
\* it does not matter which.
Addresses == Permutations(Cells)

-----------------------------------------------------------------------------
\* Lists can be walked both ways, what is freed is not linked, nothing leaks, and
\* a name finds its first item (cJSON.c:253-275, 1824-2373, 2697-2778).
JsonTreesSound ==
  Tree!ListsWellLinked /\ Tree!NoDanglingLink /\ Tree!NothingLeaks /\ Tree!LookupFindsFirst

\* Every call does to the trees what it promises (cJSON.c:1924-2373).
JsonForestSpec == Tree!ForestSpec

\* The parser accepts JSON and leaves nothing behind when it does not; what has
\* been parsed prints as it was; strings, numbers and comparisons agree with their
\* definitions; minifying takes out what means nothing (cJSON.c:305-398, 437-544,
\* 611-1018, 1075-1822, 2780-2884, 2977-3099).
JsonTextRight ==
  /\ part = "text" => Text!ParseAcceptsJson /\ Text!ParseLeavesNothing /\ Text!PrintReadsBack
  /\ part = "scalars" =>
       Scalars!StringsReadBack /\ Scalars!ComparisonRight /\ Scalars!NumbersSaturate
  /\ part = "minify" => Minify!MinifyKeepsMeaning

\* However the stream is cut, the program gets the messages that the peer's frames
\* mean, and the errors that they deserve, but for two exceptions: a text of several
\* frames that ends inside a character, and a size that is no size_t; close codes and
\* texts are judged as the standards say (hybi13.hpp:382-731, connection.hpp:565,
\* close.hpp:184-348, utf8_validator.hpp:46-150).
FramesRight ==
  part = "frames" => Frames!MessagesAsSent /\ Frames!CloseCodesKept /\ Frames!TextsAsUnicode

\* Handshakes are read as they were meant, however they are cut; the two ends come to
\* the same address, subprotocol and compression; the first offer that can be met is
\* met (connection_impl.hpp:1131-1293, 1546-1663, hybi13.hpp:102-349, http/parser.hpp,
\* enabled.hpp:273-794, uri.hpp:51-346).
HandshakeRight ==
  part = "handshake" =>
    /\ Handshake!ReadAsSent /\ Handshake!EndsAgree
    /\ Handshake!OffersMet /\ Handshake!WrittenReadsBack

=============================================================================
