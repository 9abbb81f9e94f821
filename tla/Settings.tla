------------------------------ MODULE Settings ------------------------------
(***************************************************************************)
(* The settings of a module: a VariableGroup that is read from a file when *)
(* the device boots, edited with a web form and by the program, and        *)
(* written back by the form's handler.  On the ESP32 the handler runs in   *)
(* the task of the web server, so the program goes on between its steps;   *)
(* power may go at any of them.                                            *)
(***************************************************************************)
EXTENDS Variables

CONSTANTS Groups,      \* groups to choose from: sequences of variables' types
          FormTexts,   \* texts that are typed into a form
          JsonInputs   \* JSON values given to updateFromJson()

ASSUME SettingsAssumption ==
  /\ NaN \notin Int
  /\ \A g \in Groups :
       /\ Len(g) \in Nat /\ DOMAIN g = 1 .. Len(g)
       /\ \A i \in DOMAIN g : IsValue(g[i].kind, g[i].default) /\ g[i].decimals \in Nat
  /\ \A json \in JsonInputs : IsJson(json) /\ json.is # "null"

VARIABLES group,       \* the variables' kinds, decimals, flags and default values
          variables,   \* the variables
          flash,       \* external: "blank" until it is formatted
          preexisted,  \* m_fs_preexisted
          file,        \* external: the file of the group, <<>> if there is none
          handler,     \* where the form's handler is: "idle", "read" or "open"
                       \* ("off" before the first boot)
          allSet,      \* what the handler's read() returned
          doc,         \* the values the handler put into the JSON document
          restartDue,  \* a restart is queued
          asked,       \* what the form left, for variables untouched since (history)
          kept         \* what must be there after a restart (history)

ram == <<variables, preexisted, handler, allSet, doc, restartDue>>
settingsVars == <<group, ram, flash, file, asked, kept>>

Indices == DOMAIN group
NoValues == [i \in {} |-> 0]
Without(f, i) == [j \in DOMAIN f \ {i} |-> f[j]]
-----------------------------------------------------------------------------
(* FlashSupport::setup() does not mount what it formats: until the next    *)
(* boot the file system counts as missing.                                 *)
SetUpFlash == preexisted' = (flash = "formatted") /\ flash' = "formatted"

(* read_config(): values that are missing, null or refused leave the       *)
(* default.                                                                *)
ReadConfig(defaults) ==
  IF flash = "blank" \/ file = <<>> THEN defaults
  ELSE [i \in Indices |->
         IF group[i].config /\ file[i].is # "null"
         THEN FromJson(group[i].kind, defaults[i], file[i]) ELSE defaults[i]]

Defaults == [i \in Indices |-> State(group[i].default, FALSE)]

(* The constructors and the init functions.                                *)
Boot ==
  /\ variables' = ReadConfig(Defaults)
  /\ SetUpFlash
  /\ handler' = "idle" /\ allSet' = FALSE /\ doc' = <<>> /\ restartDue' = FALSE
  /\ asked' = NoValues
  /\ UNCHANGED <<group, file, kept>>

SettingsInit ==
  /\ group \in Groups
  /\ flash \in {"blank", "formatted"} /\ file = <<>> /\ preexisted = FALSE
  /\ variables = Defaults
  /\ handler = "off" /\ allSet = FALSE /\ doc = <<>> /\ restartDue = FALSE
  /\ asked = NoValues /\ kept = NoValues

PowerLoss == Boot

Restart == restartDue /\ Boot
-----------------------------------------------------------------------------
(* read(request, group): every settable variable that the request has a    *)
(* parameter for; it returns whether all were there and converted.         *)
ReadForm(texts) ==
  /\ handler = "idle" /\ handler' = "read"
  /\ variables' = [i \in Indices |->
                     IF i \in DOMAIN texts THEN FromString(group[i].kind, variables[i], texts[i])
                     ELSE variables[i]]
  /\ allSet' = \A i \in Indices : group[i].settable =>
                 i \in DOMAIN texts /\ Converted(group[i].kind, variables'[i])
  /\ asked' = variables'
  /\ UNCHANGED <<group, preexisted, doc, restartDue, flash, file, kept>>

Settable == { i \in Indices : group[i].settable }

Shown(i) == FormEntry(group[i].kind, group[i].decimals, variables[i])

(* A form that is posted as it was shown; one with a field edited; and one *)
(* with fields left out, or only looked at: the handler is the same.       *)
PostUnedited == ReadForm([i \in Settable |-> Shown(i)])

PostEdited ==
  \E i \in Settable, text \in FormTexts :
    ReadForm([j \in Settable |-> IF j = i THEN text ELSE Shown(j)])

PostPartly ==
  \E given \in SUBSET Settable :
    given # Settable /\ ReadForm([i \in given |-> Shown(i)])

Replied ==
  /\ handler' = "idle" /\ doc' = <<>> /\ asked' = NoValues
  /\ UNCHANGED <<group, variables, preexisted, allSet, flash>>

(* The WiFi form queues a restart if all was set, also when nothing was    *)
(* saved.                                                                  *)
WifiReply == Replied /\ restartDue' = (restartDue \/ allSet)

(* The forms of other modules do not, and a full task queue refuses it.    *)
PlainReply == Replied /\ UNCHANGED restartDue

Reply == WifiReply \/ PlainReply

(* write_config(): without a file system, or if the file cannot be opened. *)
WriteRefused == handler = "read" /\ Reply /\ UNCHANGED <<file, kept>>

(* Fault: what was there is gone as soon as the file is opened.            *)
OpenConfigTruncates ==
  /\ handler = "read" /\ preexisted
  /\ handler' = "open" /\ file' = <<>>
  /\ UNCHANGED <<group, variables, preexisted, allSet, doc, restartDue, flash, asked, kept>>

OpenConfig ==
  /\ handler = "read" /\ preexisted
  /\ handler' = "open"
  /\ UNCHANGED <<group, variables, preexisted, allSet, doc, restartDue, flash, file, asked, kept>>

WriteVariable ==
  LET i == Len(doc) + 1
  IN  /\ handler = "open" /\ i \in Indices
      /\ doc' = Append(doc, IF group[i].config THEN ToJson(group[i].kind, variables[i]) ELSE Null)
      /\ UNCHANGED <<group, variables, preexisted, handler, allSet, restartDue, flash, file,
                     asked, kept>>

(* What a file can bring back: not a failed variable, not NaN, not an      *)
(* enumeration value without a name.                                       *)
Storable(i) ==
  /\ group[i].config /\ ~asked[i].failed
  /\ group[i].kind = "float" => asked[i].value # NaN
  /\ group[i].kind = "enumStr" => asked[i].value + 1 \in DOMAIN ValueNames

(* The new contents replace the old ones when the file is closed           *)
(* (LittleFS, external).                                                   *)
CloseConfig ==
  /\ handler = "open" /\ Len(doc) = Len(group)
  /\ file' = doc
  /\ kept' = [i \in { j \in DOMAIN asked : Storable(j) } |-> asked[i].value]
  /\ Reply
-----------------------------------------------------------------------------
(* The program sets a variable, or marks it failed, and updateFromJson()   *)
(* updates a settable one.                                                 *)
Changes(i, v) ==
  /\ handler # "off"
  /\ variables' = [variables EXCEPT ![i] = v]
  /\ asked' = Without(asked, i)
  /\ UNCHANGED <<group, preexisted, handler, allSet, doc, restartDue, flash, file, kept>>

Assign == \E i \in Indices : Changes(i, Assigned(variables[i], group[i].default))

SetFailed == \E i \in Indices : Changes(i, Failed(variables[i]))

UpdateFromJson ==
  \E i \in Settable, json \in JsonInputs : Changes(i, FromJson(group[i].kind, variables[i], json))

SettingsNext ==
  \/ PowerLoss \/ Restart
  \/ PostUnedited \/ PostEdited \/ PostPartly
  \/ WriteRefused \/ OpenConfig \/ WriteVariable \/ CloseConfig
  \/ Assign \/ SetFailed \/ UpdateFromJson

SettingsSpec == SettingsInit /\ [][SettingsNext]_settingsVars
-----------------------------------------------------------------------------
(* A restart or a loss of power at any time brings back what the last form *)
(* left that was saved, all of it and nothing of a later one that was not  *)
(* (write_config(), read_config()).  Excused are the values that a file    *)
(* cannot hold, see Storable, and those the program changed before the     *)
(* file was written.                                                       *)
RestartRestores ==
  [][ Boot => \A i \in DOMAIN kept : variables'[i].value = kept[i] ]_settingsVars

(* Posting a form as it was shown changes no setting but three: a number   *)
(* with more decimals than its variable is rounded to what the form showed *)
(* (variable.h:356), a text with a quote is cut there (html_table.cpp:11), *)
(* and an enumeration value without a name becomes the first option        *)
(* (formEntry(), string(), fromString()).                                  *)
UneditedKept ==
  [][ PostUnedited =>
        \A i \in Settable :
          \/ variables'[i].value = variables[i].value
          \/ /\ group[i].kind = "float"
             /\ variables'[i].value = Rounded(variables[i].value, group[i].decimals)
          \/ group[i].kind = "string" /\ variables[i].value = Quoted
          \/ /\ group[i].kind = "enumStr"
             /\ variables[i].value + 1 \notin DOMAIN ValueNames ]_settingsVars
=============================================================================
