----------------------------- MODULE PluginSample -----------------------------
(***************************************************************************)
(* How the plugin reads the file that describes it (Plugins/PluginSample.cpp): *)
(* SetNotifyPluginUpdateFromFile walks the JSON tree and builds the update    *)
(* that registers the plugin, or gives up; GetModule looks a command's module *)
(* up in what was built; the configuration and the key go into every message. *)
(*                                                                         *)
(* The texts of an entry (name, category, description and so on), which are  *)
(* copied, are its info; displayOnProperty of an item is left out.  A value   *)
(* that may be missing or of another kind than expected is [kind, items].    *)
(***************************************************************************)
EXTENDS Integers, FiniteSets, Sequences, SequencesExt

VARIABLES
  file,    \* the file that was read last
  data,    \* pluginData: the update that was built last, or NoData
  answer   \* what SetNotifyPluginUpdateFromFile returned

vars == <<file, data, answer>>

Array(items) == [kind |-> "array", items |-> items]
Absent == [kind |-> "absent", items |-> <<>>]
Other == [kind |-> "other", items |-> <<>>]

NoFile == [appGUID |-> "none", modules |-> Absent]
NoData == <<>>

ChoiceTypes == {"checkbox", "switch", "list"}

-----------------------------------------------------------------------------
(***************************************************************************)
(* Parameters of commands, alarms and configs                               *)
(***************************************************************************)

ConfigParam(p) ==
  [info |-> p.info, type |-> p.type,
   mask |-> p.type = "string" /\ p.mask,
   format |-> IF p.type = "datetime" THEN p.format ELSE "",
   values |-> IF p.type \in ChoiceTypes THEN p.values ELSE <<>>]

\* The mask is not handed on: CUpdateCommandParam has none.
CommandParam(p) ==
  LET cfgParam == ConfigParam(p)
  IN [info |-> cfgParam.info, type |-> cfgParam.type, format |-> cfgParam.format,
      values |-> cfgParam.values,
      source |-> IF cfgParam.type \in ChoiceTypes THEN p.source ELSE ""]

\* GetUpdateCommandParam, GetUpdateAlarmParam, GetUpdateConfigParam
Param(section, p) == IF section = "commands" THEN CommandParam(p) ELSE ConfigParam(p)

\* An entry of params is a row of parameters or a single one.
Row(section, entry) == [i \in DOMAIN entry.params |-> Param(section, entry.params[i])]

\* The first of an empty list: the list's size, taken for a pointer.
NullParam == "null"

First(row) == IF row = <<>> THEN NullParam ELSE row[1]

\* Mutant of Is2DArray: an array that was seen once counts for good.
Is2DArray_Sticky(entries, before) ==
  before \/ \E i \in DOMAIN entries : entries[i].row

\* is2DArray is a variable of the whole section: without entries it keeps the
\* value of the item before, and of several entries the last one counts.
Is2DArray(entries, before) == IF entries = <<>> THEN before ELSE Last(entries).row

Item(section, item, is2D) ==
  LET rows == [i \in DOMAIN item.params.items |-> Row(section, item.params.items[i])]
  IN [info |-> item.info, is2D |-> is2D,
      params |-> IF is2D THEN rows ELSE [i \in DOMAIN rows |-> <<First(rows[i])>>]]

\* The loops over commandsJson, alarmsJson and configsJson.
NextItem(section, so, item) ==
  LET is2D == Is2DArray(item.params.items, so.is2D)
  IN [is2D |-> is2D, items |-> Append(so.items, Item(section, item, is2D))]

Items(section, json) ==
  FoldLeft(LAMBDA so, item : NextItem(section, so, item), [is2D |-> FALSE, items |-> <<>>],
           json.items).items

-----------------------------------------------------------------------------
(***************************************************************************)
(* Properties                                                              *)
(***************************************************************************)

\* std::map::insert leaves an entry that is there.
Inserted(map, key, value) ==
  IF key \in DOMAIN map THEN map
  ELSE [k \in DOMAIN map \cup {key} |-> IF k = key THEN value ELSE map[k]]

MapOf(pairs) == FoldLeft(LAMBDA map, pair : Inserted(map, pair[1], pair[2]), <<>>, pairs)

\* A row is pushed after each of its columns, with the columns so far.
TableRows(row) == [n \in DOMAIN row |-> MapOf(SubSeq(row, 1, n))]

\* One entry of a value that is taken from a property.
WithOptions(map, valueItem) ==
  IF valueItem.displayValues.kind = "array" /\ valueItem.displayValues.items # <<>>
  THEN Inserted(map, "displayValues", valueItem.displayValues.items) ELSE map


WithDefault(map, valueItem) ==
  IF valueItem.defaultValue # "" THEN Inserted(map, "defaultValue", <<valueItem.defaultValue>>)
  ELSE map

FromProperty(map, valueItem) == WithDefault(WithOptions(map, valueItem), valueItem)

Property(p, value, table, from) ==
  [info |-> p.info, type |-> p.type, value |-> value, table |-> table, from |-> from]

\* The properties that an entry becomes: one, none, or one for each item of a value
\* that is taken from a property.
PropertiesOf(p) ==
  CASE p.type \in {"string", "displayOn"} -> <<Property(p, p.value, <<>>, <<>>)>>
    [] p.type = "table" ->
         LET rows == [i \in DOMAIN p.table |-> TableRows(p.table[i])]
         IN <<Property(p, "", FlattenSeq(rows), <<>>)>>
    [] p.type = "link" ->
         IF p.link = <<>> THEN <<>> ELSE <<Property(p, "", <<MapOf(<<p.link>>)>>, <<>>)>>
    [] p.type = "valueFromProperty" ->
         [n \in DOMAIN p.items |->
            Property(p, "", <<>>, FoldLeft(FromProperty, <<>>, SubSeq(p.items, 1, n)))]
    [] OTHER -> <<>>

Properties(json) == FlattenSeq([i \in DOMAIN json.items |-> PropertiesOf(json.items[i])])

-----------------------------------------------------------------------------
(***************************************************************************)
(* The file                                                                *)
(***************************************************************************)

PlainSections == {"states", "metrics", "events"}
ParamSections == {"commands", "alarms", "configs"}
Sections == {"properties"} \cup PlainSections \cup ParamSections

\* A section, or the params of one of its items, is not an array: return NULL.
ModuleRefused(json) ==
  \/ \E s \in Sections : json[s].kind = "other"
  \/ \E s \in ParamSections : \E i \in DOMAIN json[s].items : json[s].items[i].params.kind = "other"

Refused(json) ==
  \/ json.modules.kind # "array"
  \/ \E i \in DOMAIN json.modules.items : ModuleRefused(json.modules.items[i])

Module(json) ==
  [name |-> json.name,
   properties |-> Properties(json.properties),
   states |-> json.states.items, metrics |-> json.metrics.items, events |-> json.events.items,
   commands |-> Items("commands", json.commands), alarms |-> Items("alarms", json.alarms),
   configs |-> Items("configs", json.configs)]

Update(json) == [i \in DOMAIN json.modules.items |-> Module(json.modules.items[i])]

\* An appGUID that is not the configured one is replaced by it, and a missing one
\* dereferenced.
Crashes(json) == json.appGUID = "missing"

SetNotifyPluginUpdateFromFile(json) ==
  /\ answer # "crash"
  /\ file' = json
  /\ IF Crashes(json) THEN answer' = "crash" /\ UNCHANGED data
     ELSE IF Refused(json) THEN answer' = "NULL" /\ UNCHANGED data
     ELSE answer' = "update" /\ data' = Update(json)

\* The file cannot be read, or is not JSON.
NoJson ==
  /\ answer # "crash" /\ file' = NoFile /\ answer' = "NULL"
  /\ UNCHANGED data

NoModule == "none"

GetModule(moduleName) ==
  LET found == SelectSeq(data, LAMBDA module : module.name = moduleName)
  IN IF moduleName = "" \/ found = <<>> THEN NoModule ELSE found[1]

-----------------------------------------------------------------------------
(***************************************************************************)
(* The configuration and the notifications                                  *)
(***************************************************************************)

Settings == <<"apiVersion", "appGUID", "accessKey", "unformattedJson", "sampleName">>

DefaultConfig ==
  [apiVersion |-> "v2", appGUID |-> "", accessKey |-> "", unformattedJson |-> "true",
   sampleName |-> "", stopped |-> FALSE]

\* A missing setting keeps its default; the text of one that is no string throws,
\* and the settings after it are not read.
Setting(json, config, key) ==
  IF config.stopped \/ json[key] = "absent" THEN config
  ELSE IF key = "unformattedJson"
       THEN [config EXCEPT ![key] = IF json[key] = "false" THEN "false" ELSE "true"]
  ELSE IF json[key] = "number" THEN [config EXCEPT !.stopped = TRUE]
  ELSE [config EXCEPT ![key] = json[key]]

GetSampleConfig(json) ==
  FoldLeft(LAMBDA config, key : Setting(json, config, key), DefaultConfig, Settings)

\* CPluginSample: the access key is kept for the second version only.
Sample(config) ==
  [apiVersion |-> config.apiVersion, minify |-> config.unformattedJson = "true",
   appGUID |-> config.appGUID,
   accessKey |-> IF config.apiVersion = "v2" THEN config.accessKey ELSE ""]

Message(sample, moduleName, params) ==
  [apiVersion |-> sample.apiVersion, appGUID |-> sample.appGUID, moduleName |-> moduleName,
   params |-> params, formatted |-> ~sample.minify,
   accessKey |-> IF sample.apiVersion = "v2" THEN sample.accessKey ELSE "not set"]

\* The states of a command that have acknowledgements, and what each carries.
AckStates == {"ACCEPTED", "ACKED", "REJECTED", "ERRORED"}

SetNotifyCommandAcks(sample, moduleName, cmdState, cmdAcks, states) ==
  IF cmdState \notin AckStates THEN "NULL"
  ELSE Message(sample, moduleName,
               [state |-> cmdState, acks |-> cmdAcks,
                states |-> IF cmdState = "ACKED" THEN states ELSE "not set"])

\* SetNotifyStates, SetNotifyEvents, SetNotifyMetrics, SetNotifyAlerts
SetNotify(sample, moduleName, items) == Message(sample, moduleName, [items |-> items])

-----------------------------------------------------------------------------
(***************************************************************************)
(* Files                                                                   *)
(***************************************************************************)

P(info, type) ==
  [info |-> info, type |-> type, mask |-> TRUE, format |-> "f", values |-> <<"v">>, source |-> "s"]

Single(p) == [row |-> FALSE, params |-> <<p>>]
RowOf(ps) == [row |-> TRUE, params |-> ps]

Entries ==
  {Single(P("p", "string")), Single(P("q", "list")), RowOf(<<>>), RowOf(<<P("p", "list")>>),
   RowOf(<<P("p", "datetime"), P("q", "switch")>>)}

ParamLists == {Absent, Other} \cup {Array(s) : s \in BoundedSeq(Entries, 2)}

FileItem(info, params) == [info |-> info, params |-> params]

ItemLists(lists) ==
  {<<FileItem("a", params)>> : params \in lists}
    \cup {<<FileItem("a", params), FileItem("b", more)>> : params \in lists, more \in lists}

\* A link is its url and its alias, or empty when the entry has no value.
Entry(info, type) ==
  [info |-> info, type |-> type, value |-> "v", table |-> <<>>, items |-> <<>>,
   link |-> <<"u", "w">>]

Option(values, default) == [displayValues |-> values, defaultValue |-> default]

PropertyEntries ==
  {Entry("a", "string"), Entry("a", "displayOn"), Entry("a", "unknown"), Entry("a", "link"),
   [Entry("a", "link") EXCEPT !.link = <<>>],
   [Entry("a", "table") EXCEPT
      !.table = <<<<<<"x", "1">>, <<"y", "2">>>>, <<>>, <<<<"x", "3">>>>>>],
   [Entry("a", "table") EXCEPT !.table = <<<<<<"x", "1">>, <<"x", "2">>>>>>],
   [Entry("a", "valueFromProperty") EXCEPT
      !.items = <<Option(Array(<<"o", "n">>), ""), Option(Array(<<"n">>), "d"),
                  Option(Absent, "e")>>],
   [Entry("a", "valueFromProperty") EXCEPT
      !.items = <<Option(Other, "d"), Option(Array(<<>>), ""), Option(Array(<<"o">>), "")>>]}

FileModule(name) == [s \in Sections \cup {"name"} |-> IF s = "name" THEN name ELSE Absent]

FileModules ==
  {FileModule(name) : name \in {"m", "n", ""}}
    \cup {[FileModule("m") EXCEPT ![s] = json] :
            s \in Sections, json \in {Other, Array(<<>>)}}
    \cup {[FileModule("m") EXCEPT ![s] = Array(<<"e", "f">>)] : s \in PlainSections}
    \cup {[FileModule("m") EXCEPT !["properties"] = Array(json)] :
            json \in BoundedSeq(PropertyEntries, 2)}

\* The longer lists are tried for commands only: alarms and configs read alike.
ModulesWithParams ==
  {[FileModule("m") EXCEPT !["commands"] = Array(items)] : items \in ItemLists(ParamLists)}
    \cup {[FileModule("n") EXCEPT ![s] = Array(items)] :
            s \in {"alarms", "configs"},
            items \in ItemLists({Absent, Other} \cup {Array(<<e>>) : e \in Entries})}

FileOf(guid, modules) == [appGUID |-> guid, modules |-> modules]

Small == {FileModule("m"), FileModule("n"), [FileModule("m") EXCEPT !["states"] = Other]}

\* Bound: files of two modules are made of small ones, and so are those that are
\* read again.
SmallFiles ==
  {FileOf("own", Array(s)) : s \in BoundedSeq(Small, 2)}
    \cup {FileOf(guid, modules) :
            guid \in {"own", "another", "missing"},
            modules \in {Absent, Other, Array(<<FileModule("m")>>)}}

Files == SmallFiles \cup {FileOf("own", Array(<<m>>)) : m \in FileModules \cup ModulesWithParams}

Init == file = NoFile /\ data = NoData /\ answer = "none"

Next ==
  \/ \E json \in IF answer = "none" THEN Files ELSE SmallFiles : SetNotifyPluginUpdateFromFile(json)
  \/ NoJson

Spec == Init /\ [][Next]_vars

-----------------------------------------------------------------------------
(***************************************************************************)
(* Properties                                                              *)
(***************************************************************************)

\* The entries of an item are all single, or all rows.  Of an item that has both the
\* code keeps the shape of the last entry, and of an empty row that it takes for a
\* single entry it dereferences the first; nothing says what such a file means.
Uniform(params) ==
  \/ \A i \in DOMAIN params.items : ~params.items[i].row
  \/ \A i \in DOMAIN params.items : params.items[i].row

InfosOf(entry) == [i \in DOMAIN entry.params |-> entry.params[i].info]
Infos(row) == [i \in DOMAIN row |-> row[i].info]

\* The exception: an item without entries has the shape of the nearest item before it
\* that has some (473), and is one of rows although it has none.
StaleShape(items, i) ==
  \E j \in 1 .. i - 1 :
    /\ items[j].params.items # <<>> /\ Last(items[j].params.items).row
    /\ \A k \in j + 1 .. i : items[k].params.items = <<>>

\* A command, alarm or config that the file describes in one way has that shape and
\* all its parameters in the update, whatever the ones before it were like; one
\* without parameters is no item of rows, StaleShape excepted
\* (PluginSample.cpp:463-737).
ParamsAsFile ==
  answer = "update" =>
    \A m \in DOMAIN data, s \in ParamSections :
      \A items \in {file.modules.items[m][s].items} :
        /\ Len(data[m][s]) = Len(items)
        /\ \A i \in DOMAIN items :
             Uniform(items[i].params) =>
               /\ data[m][s][i].is2D <=>
                    \/ \E k \in DOMAIN items[i].params.items : items[i].params.items[k].row
                    \/ StaleShape(items, i)
               /\ [k \in DOMAIN data[m][s][i].params |-> Infos(data[m][s][i].params[k])]
                    = [k \in DOMAIN items[i].params.items |-> InfosOf(items[i].params.items[k])]
               /\ data[m][s][i].info = items[i].info

\* The properties that the file asks for: each with its entry, and with its item where
\* its value is taken from a property.
AskedBy(p) ==
  CASE p.type = "unknown" -> <<>>
    [] p.type = "link" /\ p.link = <<>> -> <<>>
    [] p.type = "valueFromProperty" -> [n \in DOMAIN p.items |-> [entry |-> p, item |-> n]]
    [] OTHER -> <<[entry |-> p, item |-> 0]>>

Asked(json) == FlattenSeq([i \in DOMAIN json.items |-> AskedBy(json.items[i])])

\* map has the headers of a row, each with the value that comes first.
MeansRow(map, row) ==
  /\ DOMAIN map = {row[i][1] : i \in DOMAIN row}
  /\ \A i \in DOMAIN row :
       (\A j \in 1 .. i - 1 : row[j][1] # row[i][1]) => map[row[i][1]] = row[i][2]

\* The rows of a table that are not empty are there, whole and in their order; the
\* others are beginnings of its rows, which the code pushes too (330).
MeansTable(maps, table) ==
  LET rows == SelectSeq(table, LAMBDA row : row # <<>>)
  IN /\ \E at \in [DOMAIN rows -> DOMAIN maps] :
          /\ \A r \in DOMAIN rows : MeansRow(maps[at[r]], rows[r])
          /\ \A r \in DOMAIN rows : \A q \in 1 .. r - 1 : at[q] < at[r]
     /\ \A k \in DOMAIN maps : \E r \in DOMAIN rows :
          \E n \in DOMAIN rows[r] : MeansRow(maps[k], SubSeq(rows[r], 1, n))

\* What an item of a value says of key, empty if nothing.
Says(item, key) ==
  IF key = "displayValues" THEN item.displayValues.items
  ELSE IF item.defaultValue = "" THEN <<>> ELSE <<item.defaultValue>>

\* The exception: the map outlives the item (309), and insert changes nothing that is
\* there (368, 376).  What an earlier item of the entry says first is kept, and what
\* the item itself says is lost.
Outlives(from, items, n, key) ==
  \E k \in 1 .. n - 1 :
    /\ Says(items[k], key) # <<>> /\ \A j \in 1 .. k - 1 : Says(items[j], key) = <<>>
    /\ key \in DOMAIN from /\ from[key] = Says(items[k], key)

\* The options and the default are the item's own, and there are none when it has none.
MeansItem(from, items, n) ==
  /\ DOMAIN from \subseteq {"displayValues", "defaultValue"}
  /\ \A key \in {"displayValues", "defaultValue"} :
       IF \E k \in 1 .. n - 1 : Says(items[k], key) # <<>> THEN Outlives(from, items, n, key)
       ELSE IF key \in DOMAIN from THEN from[key] # <<>> /\ from[key] = Says(items[n], key)
       ELSE Says(items[n], key) = <<>>

\* The properties of the update are those that the file asks for, in its order, each
\* with all of its value: a table row by row, a link with its url and alias, a value
\* taken from a property with its options and default, Outlives excepted
\* (PluginSample.cpp:290-395).
PropertiesAsFile ==
  answer = "update" =>
    \A m \in DOMAIN data :
      \A asked \in {Asked(file.modules.items[m]["properties"])} :
        /\ Len(data[m].properties) = Len(asked)
        /\ \A k \in DOMAIN asked :
             \A q \in {data[m].properties[k]}, p \in {asked[k].entry} :
               /\ q.info = p.info /\ q.type = p.type
               /\ p.type \in {"string", "displayOn"} => q.value = p.value
               /\ p.type = "table" => MeansTable(q.table, p.table)
               /\ p.type = "link" => Len(q.table) = 1 /\ MeansRow(q.table[1], <<p.link>>)
               /\ IF p.type = "valueFromProperty" THEN MeansItem(q.from, p.items, asked[k].item)
                  ELSE q.from = <<>>

\* A file that is not as it should be changes nothing of what was read before; else
\* every module that has a name is found, the first of several
\* (PluginSample.cpp:246-257, 276-281, 739-764).
ModulesAsFile ==
  \/ answer = "update" /\ \A m \in DOMAIN data :
       data[m].name # "" =>
         \E k \in 1 .. m :
           /\ file.modules.items[k]["name"] = data[m].name
           /\ GetModule(data[m].name) = data[k]
  \/ answer # "update" /\ (file # NoFile /\ answer = "NULL" => Refused(file))

ConfigFiles ==
  [apiVersion : {"absent", "number", "v1", "v2"}, appGUID : {"absent", "number", "own"},
   accessKey : {"absent", "key"}, unformattedJson : {"absent", "false", "true", "number"},
   sampleName : {"absent", "tmate"}]

\* Every message of a plugin with a key and the second version of the interface has
\* the key, and no message of another has; a setting that cannot be read costs the
\* later ones but none before it (PluginSample.cpp:36-69, 207-220, 766-892).
KeyWhereItBelongs ==
  file = NoFile =>
    \A json \in ConfigFiles : \A sample \in {Sample(GetSampleConfig(json))} :
      \A message \in {SetNotify(sample, "m", "items")}
                     \cup {SetNotifyCommandAcks(sample, "m", state, "acks", "states") :
                             state \in AckStates} :
        /\ (message.accessKey = "key") <=>
             (json.apiVersion \in {"absent", "v2"} /\ json.appGUID # "number" /\ json.accessKey = "key")
        /\ json.apiVersion # "number" /\ json.appGUID = "own" => message.appGUID = "own"
=============================================================================
