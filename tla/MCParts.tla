------------------------------ MODULE MCParts ------------------------------
(* The parts that the rest of the program only calls, each by itself: a     *)
(* behaviour is one of the part that `part' names.                          *)
EXTENDS Settings, RingBuffer, KernelFilter, Packets, BlinkLed, Pir, TextBuffer,
        Watchdog

VARIABLE part

partVars == <<part, settingsVars, ringVars, filterVars, packetVars, ledVars, pirVars, textVars,
              watchdogVars>>

Type(kind, default, settable, config) ==
  [kind |-> kind, default |-> default, decimals |-> 0, settable |-> settable, config |-> config]

MCGroups ==
  { <<Type("float", 10, TRUE, TRUE)>>,
    <<[Type("float", 25, TRUE, TRUE) EXCEPT !.decimals = 1]>>, <<Type("int", 2, TRUE, TRUE)>>,
    <<Type("enum", 1, TRUE, TRUE)>>, <<Type("enumStr", 1, TRUE, TRUE)>>,
    <<Type("string", "0", TRUE, TRUE)>>, <<Type("bool", FALSE, TRUE, TRUE)>>,
    <<Type("bool", FALSE, TRUE, TRUE), Type("int", 1, TRUE, TRUE)>>,
    <<Type("bool", FALSE, TRUE, FALSE), Type("int", 1, FALSE, TRUE)>> }

MCFormTexts == {"1", "2.5", "3", "nan", Quoted, ""}
MCJsonInputs == {Number(25), Number(0), Text("low"), Boolean(TRUE)}
MCElements == {<<1, "a">>, <<2, "a">>, <<2, "b">>}
MCMessages == [size : {0, 1, 5}, type : {1, 2}]
MCPieces == {<<"a">>, <<Space>>, <<Newline>>, <<"a", Space, "a">>}

(* A part that is idle has one initial state.                               *)
PartsInit ==
  /\ part \in {"settings", "ring", "filter", "packet", "led", "pir", "text", "watchdog"}
  /\ SettingsInit /\ RingInit /\ FilterInit /\ PacketInit /\ LedInit /\ PirInit /\ TextInit
  /\ WatchdogInit
  /\ part # "settings" => group = <<Type("int", 2, TRUE, TRUE)>> /\ flash = "blank"
  /\ part # "ring" => ~sorted
  /\ part # "filter" => filter = NewFilter(1)
  /\ part # "packet" => bufferSize = 12
  /\ part # "pir" => pin = [s \in Sensors |-> FALSE]

PartsNext ==
  /\ UNCHANGED part
  /\ IF part = "settings" THEN SettingsNext ELSE UNCHANGED settingsVars
  /\ IF part = "ring" THEN RingNext ELSE UNCHANGED ringVars
  /\ IF part = "filter" THEN FilterNext ELSE UNCHANGED filterVars
  /\ IF part = "packet" THEN PacketNext ELSE UNCHANGED packetVars
  /\ IF part = "led" THEN LedNext ELSE UNCHANGED ledVars
  /\ IF part = "pir" THEN PirNext ELSE UNCHANGED pirVars
  /\ IF part = "text" THEN TextNext ELSE UNCHANGED textVars
  /\ IF part = "watchdog" THEN WatchdogNext ELSE UNCHANGED watchdogVars

PartsSpec == PartsInit /\ [][PartsNext]_partVars
=============================================================================
