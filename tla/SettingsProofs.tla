--------------------------- MODULE SettingsProofs ---------------------------
(***************************************************************************)
(* What Settings guarantees for any number of clients, any certificates,   *)
(* and any number of requests and crashes.                                 *)
(***************************************************************************)
EXTENDS Settings, TLAPS

---------------------------------------------------------------------------
(* The inductive invariant.                                                *)

Agree == \A o \in Options : mem[o] = Load(disk)[o] \/ (o \in Optional /\ mem[o] = "")

\* Only the write of a client that left works without the lock.
OrphansAdrift == ~adrift => NoOrphan

\* Memory and file agree, also while a request reads the file to edit it.
AgreeInv ==
    /\ alive /\ ~adrift /\ Loads(disk)
    /\ lock = "free" \/ \E c \in Clients : pc[c] = "entry"
    => Agree

\* The text on its way to the file is the memory's.
WriteInv ==
    \A c \in Clients : pc[c] = "write" =>
        \A o \in Options : doc[c][o] = mem[o] \/ (o \in Optional /\ mem[o] = "")

\* Between two writes the file holds the text last written.
LastInv ==
    (\A c \in Clients : orphan[c].pc # "fill" /\ pc[c] \notin {"write", "fill"}) => disk = last

\* An edited text differs from the last one in the entry only.
EditInv ==
    ~adrift => \A c \in Clients : pc[c] \in {"truncate", "fill"} =>
        \A o \in Options \ {edit[c][1]} : doc[c][o] = last[o]

FileInv == OrphansAdrift /\ AgreeInv /\ WriteInv /\ LastInv /\ EditInv

\* A request is served, or pending, or neither; never served and pending.
RebootInv ==
    served["reboot"] + (IF handler = "clear" \/ action = "reboot" THEN 1 ELSE 0) <= asked["reboot"]
ReconnectInv ==
    served["reconnect"] + (IF monitor = "clear" \/ action = "reconnect" THEN 1 ELSE 0)
        <= asked["reconnect"]
ServedInv == RebootInv /\ ReconnectInv

---------------------------------------------------------------------------
(* Types.                                                                  *)

Setting == [Options -> {"on", "off", ""}]
Text    == [Options -> Texts]

LEMMA LoadType == ASSUME NEW d \in Text, Loads(d) PROVE Load(d) \in Setting
  BY DEF Text, Texts, Setting, Loads, Load, Default, Options

LEMMA SaveType == ASSUME NEW d \in Text, NEW c \in Setting PROVE Save(d, c) \in Text
  BY DEF Text, Texts, Setting, Save

LEMMA EmptyType == Empty \in Text /\ NoWrite \in [pc : {"none", "truncate", "fill"}, doc : Text]
  BY DEF Text, Texts, Empty, NoWrite

\* The parts of TypeOK.
FlagType   == alive \in BOOLEAN /\ failed \in BOOLEAN /\ adrift \in BOOLEAN
ActionType == /\ action \in Actions \cup {"none"} /\ monitor \in {"poll", "clear"}
              /\ handler \in {"poll", "clear"}
              /\ asked \in [Cleared -> Nat] /\ served \in [Cleared -> Nat]
ConfigType == mem \in Setting /\ disk \in Text /\ last \in Text
LockType   == /\ pc \in [Clients -> Holding \cup {"idle", "unpack", "cert", "key"}]
              /\ lock \in Clients \cup {"free"}
              /\ \A c \in Clients : lock = c <=> pc[c] \in Holding
PageType   == page \in [Clients -> Setting] /\ doc \in [Clients -> Text]
EditType   == /\ edit \in [Clients -> (Options \cup {"none"}) \X Texts]
              /\ orphan \in [Clients -> [pc : {"none", "truncate", "fill"}, doc : Text]]
Parts == FlagType /\ ActionType /\ ConfigType /\ LockType /\ PageType /\ EditType

LEMMA TypeParts == TypeOK <=> Parts
<1>1. TypeOK => FlagType
  BY Zenon DEF TypeOK, Setting, Text, FlagType
<1>2. TypeOK => ActionType
  BY Zenon DEF TypeOK, Setting, Text, ActionType
<1>3. TypeOK => ConfigType
  BY Zenon DEF TypeOK, Setting, Text, ConfigType
<1>4. TypeOK => LockType
  BY Zenon DEF TypeOK, Setting, Text, LockType
<1>5. TypeOK => PageType
  BY Zenon DEF TypeOK, Setting, Text, PageType
<1>6. TypeOK => EditType
  BY Zenon DEF TypeOK, Setting, Text, EditType
<1>7. Parts => TypeOK
  BY Zenon DEF TypeOK, Setting, Text, Parts, FlagType, ActionType, ConfigType, LockType,
         PageType, EditType
<1>. QED
  BY <1>1, <1>2, <1>3, <1>4, <1>5, <1>6, <1>7, Zenon DEF Parts

LEMMA NoEditType == <<"none", "">> \in (Options \cup {"none"}) \X Texts
  BY DEF Texts

LEMMA ValuesType == ASSUME NEW o \in Edits PROVE o \in Options /\ Values[o] \subseteq {"on",
   "off", ""}
<1>1. o = "mitm" \/ o = "alias"
  BY EditsAssumption
<1>2. Values["mitm"] = {"on", "off"} /\ Values["alias"] = {"on", ""}
  BY DEF Values
<1>. QED
  BY <1>1, <1>2 DEF Options

LEMMA InitTypeOK == Init => TypeOK
<1>. SUFFICES ASSUME Init PROVE Parts
  BY TypeParts
<1>1. disk \in Text /\ Loads(disk)
  BY DEF Init, Text, Texts, Empty, Loads
<1>2. mem \in Setting
  BY <1>1, LoadType DEF Init
<1>3. FlagType
  BY Zenon DEF Init, FlagType
<1>4. LockType
  BY ClientsAssumption DEF Init, LockType, Clients, Holding
<1>5. ActionType /\ ConfigType /\ PageType
  BY <1>1, <1>2, EmptyType DEF Init, ActionType, ConfigType, PageType
<1>6. EditType
  BY EmptyType DEF Init, EditType, Texts
<1>. QED
  BY <1>3, <1>4, <1>5, <1>6 DEF Parts

LEMMA PageOfEdit ==
  ASSUME PageType, NEW c \in Clients, Replace(c)
  PROVE  page' \in [Clients -> Setting] /\ page'[c] \in Setting
<1>1. PICK o \in Edits : \E v \in Values[o] : page' = [page EXCEPT ![c][o] = v]
  BY Zenon DEF Replace
<1>. QED
  <2>1. PICK v \in {"on", "off", ""} : page' = [page EXCEPT ![c] = [page[c] EXCEPT ![o] = v]]
    BY <1>1, ValuesType
  <2>2. [page[c] EXCEPT ![o] = v] \in Setting
    BY <2>1, ValuesType DEF PageType, Setting
  <2>. QED
    BY <2>1, <2>2 DEF PageType

LEMMA NextParts == Parts /\ [Next]_vars => Parts'
<1>. SUFFICES ASSUME Parts, [Next]_vars PROVE Parts'
  OBVIOUS
<1>. USE DEF Parts, memVars, clientVars, certVars, sessionVars, historyVars
<1>1. ASSUME NEW c \in Clients, ReadPage(c) PROVE Parts'
  <2>1. PageType'
    BY <1>1, EmptyType DEF ReadPage, PageType, ConfigType, EditType, Setting, Text, Values,
           Options
  <2>2. (FlagType /\ ActionType /\ ConfigType /\ LockType /\ EditType)'
    BY <1>1 DEF ReadPage, FlagType, ActionType, ConfigType, LockType, EditType
  <2>. QED
    BY <2>1, <2>2
<1>2. ASSUME NEW c \in Clients, SetConfig(c) PROVE Parts'
  <2>1. FlagType'
    BY <1>2, Zenon DEF SetConfig, Replace, FlagType
  <2>2. ActionType'
    BY <1>2 DEF SetConfig, Replace, ActionType, Actions, Cleared
  <2>3. ConfigType'
    <3>1. Replace(c)
      BY <1>2 DEF SetConfig
    <3>2. mem' = page'[c] /\ UNCHANGED <<disk, last>>
      BY <3>1 DEF Replace, historyVars
    <3>. QED
      BY <3>1, <3>2, PageOfEdit DEF ConfigType
  <2>4. LockType'
    BY <1>2, ClientsAssumption DEF SetConfig, Replace, LockType, Goto, Idle, Free, Holding,
           Clients
  <2>5. PageType'
    BY <1>2, PageOfEdit DEF SetConfig, Replace, PageType
  <2>6. EditType'
    BY <1>2 DEF SetConfig, Replace, EditType
  <2>. QED
    BY <2>1, <2>2, <2>3, <2>4, <2>5, <2>6
<1>3. ASSUME NEW c \in Clients, UpdateConfig(c) PROVE Parts'
  <2>1. FlagType'
    BY <1>3, Zenon DEF UpdateConfig, Replace, FlagType
  <2>2. ActionType'
    BY <1>3 DEF UpdateConfig, Replace, ActionType, Actions, Cleared
  <2>3. ConfigType'
    <3>1. Replace(c)
      BY <1>3 DEF UpdateConfig
    <3>2. mem' = page'[c] /\ UNCHANGED <<disk, last>>
      BY <3>1 DEF Replace, historyVars
    <3>. QED
      BY <3>1, <3>2, PageOfEdit DEF ConfigType
  <2>4. LockType'
    BY <1>3, ClientsAssumption DEF UpdateConfig, Replace, LockType, Goto, Idle, Free, Holding,
           Clients
  <2>5. PageType'
    BY <1>3, PageOfEdit DEF UpdateConfig, Replace, PageType
  <2>6. EditType'
    BY <1>3 DEF UpdateConfig, Replace, EditType
  <2>. QED
    BY <2>1, <2>2, <2>3, <2>4, <2>5, <2>6
<1>4. ASSUME NEW c \in Clients, UpdateEntry(c) PROVE Parts'
  <2>1. LockType'
    BY <1>4, ClientsAssumption DEF UpdateEntry, LockType, Goto, Idle, Free, Holding, Clients
  <2>2. EditType'
    <3>1. PICK o \in Edits, v \in Texts : edit' = [edit EXCEPT ![c] = <<o, v>>]
      BY <1>4, ValuesType DEF UpdateEntry, Texts
    <3>. QED
      BY <1>4, <3>1, ValuesType DEF UpdateEntry, EditType
  <2>3. (FlagType /\ ActionType /\ ConfigType /\ PageType)'
    BY <1>4 DEF UpdateEntry, FlagType, ActionType, ConfigType, PageType
  <2>. QED
    BY <2>1, <2>2, <2>3
<1>5. ASSUME NEW c \in Clients, UploadCerts(c) PROVE Parts'
  <2>1. LockType'
    BY <1>5, ClientsAssumption DEF UploadCerts, Clean, LockType, Goto, Idle, Free, Holding,
           Clients
  <2>2. (FlagType /\ ActionType /\ ConfigType /\ PageType /\ EditType)'
    BY <1>5 DEF UploadCerts, Clean, FlagType, ActionType, ConfigType, PageType, EditType
  <2>. QED
    BY <2>1, <2>2
<1>6. ASSUME NEW c \in Clients, UpdateCerts(c) PROVE Parts'
  <2>1. LockType'
    BY <1>6, ClientsAssumption DEF UpdateCerts, Clean, LockType, Goto, Idle, Free, Holding,
           Clients
  <2>2. (FlagType /\ ActionType /\ ConfigType /\ PageType /\ EditType)'
    BY <1>6 DEF UpdateCerts, Clean, FlagType, ActionType, ConfigType, PageType, EditType
  <2>. QED
    BY <2>1, <2>2
<1>7. ASSUME NEW c \in Clients, Truncate(c) PROVE Parts'
  <2>1. ConfigType'
    BY <1>7, EmptyType DEF Truncate, ConfigType, PageType, EditType, Goto
  <2>2. LockType'
    BY <1>7, ClientsAssumption DEF Truncate, LockType, Goto, Idle, Free, Holding, Clients
  <2>3. PageType'
    BY <1>7, EmptyType, SaveType DEF Truncate, PageType, ConfigType, EditType, Setting, Text,
           Values, Options
  <2>4. (FlagType /\ ActionType /\ EditType)'
    BY <1>7 DEF Truncate, FlagType, ActionType, EditType
  <2>. QED
    BY <2>1, <2>2, <2>3, <2>4
<1>8. ASSUME NEW c \in Clients, Write(c) PROVE Parts'
  <2>1. FlagType'
    BY <1>8, Zenon DEF Write, FlagType
  <2>2. ConfigType'
    BY <1>8, EmptyType DEF Write, ConfigType, PageType, EditType, Goto
  <2>3. LockType'
    BY <1>8, ClientsAssumption DEF Write, LockType, Goto, Idle, Free, Holding, Clients
  <2>4. PageType'
    BY <1>8, EmptyType DEF Write, PageType, ConfigType, EditType, Setting, Text, Values, Options
  <2>5. (ActionType /\ EditType)'
    BY <1>8 DEF Write, ActionType, EditType
  <2>. QED
    BY <2>1, <2>2, <2>3, <2>4, <2>5
<1>9. ASSUME NEW c \in Clients, ReadFile(c) PROVE Parts'
  <2>1. LockType'
    BY <1>9, ClientsAssumption DEF ReadFile, LockType, Goto, Idle, Free, Holding, Clients
  <2>2. PageType'
    BY <1>9, EmptyType DEF ReadFile, PageType, ConfigType, EditType, Text
  <2>3. EditType'
    <3>1. edit' = edit \/ edit' = [edit EXCEPT ![c] = <<"none", "">>]
      BY <1>9 DEF ReadFile
    <3>. QED
      BY <1>9, <3>1, NoEditType DEF ReadFile, EditType
  <2>4. (FlagType /\ ActionType /\ ConfigType)'
    BY <1>9 DEF ReadFile, FlagType, ActionType, ConfigType
  <2>. QED
    BY <2>1, <2>2, <2>3, <2>4
<1>10. ASSUME NEW c \in Clients, TruncateEntry(c) PROVE Parts'
  <2>1. ConfigType'
    BY <1>10, EmptyType DEF TruncateEntry, ConfigType, PageType, EditType, Goto
  <2>2. LockType'
    BY <1>10, ClientsAssumption DEF TruncateEntry, LockType, Goto, Idle, Free, Holding, Clients
  <2>3. (FlagType /\ ActionType /\ PageType /\ EditType)'
    BY <1>10 DEF TruncateEntry, FlagType, ActionType, PageType, EditType
  <2>. QED
    BY <2>1, <2>2, <2>3
<1>11. ASSUME NEW c \in Clients, WriteEntry(c) PROVE Parts'
  <2>1. ConfigType'
    BY <1>11, EmptyType DEF WriteEntry, ConfigType, PageType, EditType, Goto
  <2>2. LockType'
    BY <1>11, ClientsAssumption DEF WriteEntry, LockType, Goto, Idle, Free, Holding, Clients
  <2>3. (FlagType /\ ActionType /\ PageType /\ EditType)'
    BY <1>11 DEF WriteEntry, FlagType, ActionType, PageType, EditType
  <2>. QED
    BY <2>1, <2>2, <2>3
<1>12. ASSUME NEW c \in Clients, LoadEntry(c) PROVE Parts'
  <2>1. FlagType'
    BY <1>12, Zenon DEF LoadEntry, FlagType
  <2>2. ActionType'
    BY <1>12 DEF LoadEntry, ActionType, Actions, Cleared
  <2>3. ConfigType'
    BY <1>12, EmptyType, LoadType DEF LoadEntry, ConfigType, PageType, EditType, Goto
  <2>4. LockType'
    BY <1>12, ClientsAssumption DEF LoadEntry, LockType, Goto, Idle, Free, Holding, Clients
  <2>5. PageType'
    BY <1>12, EmptyType DEF LoadEntry, PageType, ConfigType, EditType, Setting, Text, Values,
           Options
  <2>6. EditType'
    BY <1>12, EmptyType, EditsAssumption DEF LoadEntry, EditType, PageType, Texts, Options, Values
  <2>. QED
    BY <2>1, <2>2, <2>3, <2>4, <2>5, <2>6
<1>13. ASSUME NEW c \in Clients, Unpack(c) PROVE Parts'
  <2>1. LockType'
    BY <1>13, ClientsAssumption DEF Unpack, LockType, Goto, Idle, Free, Holding, Clients
  <2>2. (FlagType /\ ActionType /\ ConfigType /\ PageType /\ EditType)'
    BY <1>13 DEF Unpack, FlagType, ActionType, ConfigType, PageType, EditType
  <2>. QED
    BY <2>1, <2>2
<1>14. ASSUME NEW c \in Clients, NEW f \in Files, Copy(c, f) PROVE Parts'
  <2>1. LockType'
    BY <1>14, ClientsAssumption DEF Copy, Files, LockType, Goto, Idle, Free, Holding, Clients
  <2>2. (FlagType /\ ActionType /\ ConfigType /\ PageType /\ EditType)'
    BY <1>14 DEF Copy, FlagType, ActionType, ConfigType, PageType, EditType
  <2>. QED
    BY <2>1, <2>2
<1>15. ASSUME NEW c \in Clients, Abandon(c) PROVE Parts'
  <2>1. FlagType'
    BY <1>15, Zenon DEF Abandon, FlagType
  <2>2. LockType'
    BY <1>15, ClientsAssumption DEF Abandon, LockType, Goto, Idle, Free, Holding, Clients
  <2>3. PageType'
    BY <1>15, EmptyType DEF Abandon, PageType, ConfigType, EditType, Setting, Text, Values,
           Options
  <2>4. EditType'
    <3>1. edit' = [edit EXCEPT ![c] = <<"none", "">>]
      BY <1>15 DEF Abandon
    <3>2. \/ UNCHANGED orphan
          \/ \E q \in {"truncate", "fill"} : orphan' = [orphan EXCEPT ![c] = [pc |-> q, doc |-> doc[c]]]
      BY <1>15 DEF Abandon
    <3>3. edit' \in [Clients -> (Options \cup {"none"}) \X Texts]
      BY <3>1, NoEditType DEF EditType
    <3>. QED
      BY <3>2, <3>3 DEF EditType, PageType
  <2>5. (ActionType /\ ConfigType)'
    BY <1>15 DEF Abandon, ActionType, ConfigType
  <2>. QED
    BY <2>1, <2>2, <2>3, <2>4, <2>5
<1>16. ASSUME NEW c \in Clients, OrphanWrites(c) PROVE Parts'
  <2>1. ConfigType'
    BY <1>16, EmptyType DEF OrphanWrites, ConfigType, PageType, EditType, Goto
  <2>2. EditType'
    <3>1. \/ orphan' = [orphan EXCEPT ![c] = [orphan[c] EXCEPT !.pc = "fill"]]
          \/ orphan' = [orphan EXCEPT ![c] = NoWrite]
      BY <1>16 DEF OrphanWrites
    <3>2. [orphan[c] EXCEPT !.pc = "fill"] \in [pc : {"none", "truncate", "fill"}, doc : Text]
      BY DEF EditType
    <3>3. UNCHANGED edit
      BY <1>16 DEF OrphanWrites
    <3>. QED
      BY <3>1, <3>2, <3>3, EmptyType DEF EditType
  <2>3. (FlagType /\ ActionType /\ LockType /\ PageType)'
    BY <1>16 DEF OrphanWrites, FlagType, ActionType, LockType, PageType
  <2>. QED
    BY <2>1, <2>2, <2>3
<1>17. ASSUME NEW a \in Cleared, RequestAction(a) PROVE Parts'
  <2>1. ActionType'
    BY <1>17 DEF RequestAction, ActionType, Actions, Cleared
  <2>2. (FlagType /\ ConfigType /\ LockType /\ PageType /\ EditType)'
    BY <1>17 DEF RequestAction, FlagType, ConfigType, LockType, PageType, EditType
  <2>. QED
    BY <2>1, <2>2
<1>18. CASE MonitorReads
  <2>1. ActionType'
    BY <1>18 DEF MonitorReads, SessionEnds, ActionType, Actions, Cleared
  <2>2. (FlagType /\ ConfigType /\ LockType /\ PageType /\ EditType)'
    BY <1>18 DEF MonitorReads, SessionEnds, FlagType, ConfigType, LockType, PageType, EditType
  <2>. QED
    BY <2>1, <2>2
<1>19. CASE MonitorClears
  <2>1. ActionType'
    BY <1>19 DEF MonitorClears, SessionEnds, ActionType, Actions, Cleared
  <2>2. (FlagType /\ ConfigType /\ LockType /\ PageType /\ EditType)'
    BY <1>19 DEF MonitorClears, SessionEnds, FlagType, ConfigType, LockType, PageType, EditType
  <2>. QED
    BY <2>1, <2>2
<1>20. CASE HandlerReads
  <2>1. ActionType'
    BY <1>20 DEF HandlerReads, ActionType, Actions, Cleared
  <2>2. (FlagType /\ ConfigType /\ LockType /\ PageType /\ EditType)'
    BY <1>20 DEF HandlerReads, FlagType, ConfigType, LockType, PageType, EditType
  <2>. QED
    BY <2>1, <2>2
<1>21. CASE Reboot
  <2>1. FlagType'
    <3>1. Loads(disk) \in BOOLEAN
      BY Zenon DEF Loads
    <3>2. alive' = Loads(disk) /\ failed' = FALSE /\ adrift' = FALSE
      BY <1>21, Zenon DEF Reboot, Start
    <3>. QED
      BY <3>1, <3>2, Zenon DEF FlagType
  <2>2. ActionType'
    <3>1. /\ action' = "none" /\ monitor' = "poll" /\ handler' = "poll" /\ asked' = asked
          /\ served' = [served EXCEPT !["reboot"] = served["reboot"] + 1]
      BY <1>21, Zenon DEF Reboot, Start, SessionEnds
    <3>. QED
      BY <3>1 DEF ActionType, Actions, Cleared
  <2>3. ConfigType'
    BY <1>21, EmptyType, LoadType DEF Reboot, Start, SessionEnds, ConfigType, PageType,
           EditType, Goto
  <2>4. LockType'
    BY <1>21, ClientsAssumption DEF Reboot, Start, SessionEnds, LockType, Goto, Idle, Free,
           Holding, Clients
  <2>5. PageType'
    BY <1>21, EmptyType DEF Reboot, Start, SessionEnds, PageType, ConfigType, EditType, Setting,
           Text, Values, Options
  <2>6. EditType'
    BY <1>21, EmptyType, EditsAssumption DEF Reboot, Start, SessionEnds, EditType, PageType,
           Texts, Options, Values
  <2>. QED
    BY <2>1, <2>2, <2>3, <2>4, <2>5, <2>6
<1>22. CASE Stall
  <2>1. ActionType'
    BY <1>22 DEF Stall, SessionEnds, ActionType, Actions, Cleared
  <2>2. (FlagType /\ ConfigType /\ LockType /\ PageType /\ EditType)'
    BY <1>22 DEF Stall, SessionEnds, FlagType, ConfigType, LockType, PageType, EditType
  <2>. QED
    BY <2>1, <2>2
<1>23. ASSUME NEW p \in Proxies, ReadMode(p) PROVE Parts'
  BY <1>23 DEF ReadMode, FlagType, ActionType, ConfigType, LockType, PageType, EditType
<1>24. ASSUME NEW p \in Proxies, BuildTls(p) PROVE Parts'
  BY <1>24 DEF BuildTls, FlagType, ActionType, ConfigType, LockType, PageType, EditType
<1>25. ASSUME NEW p \in Proxies, TlsFails(p) PROVE Parts'
  <2>1. FlagType'
    BY <1>25, Zenon DEF TlsFails, SessionEnds, FlagType
  <2>2. ActionType'
    BY <1>25 DEF TlsFails, SessionEnds, ActionType, Actions, Cleared
  <2>3. (ConfigType /\ LockType /\ PageType /\ EditType)'
    BY <1>25 DEF TlsFails, SessionEnds, ConfigType, LockType, PageType, EditType
  <2>. QED
    BY <2>1, <2>2, <2>3
<1>26. CASE SessionFails
  <2>1. ActionType'
    BY <1>26 DEF SessionFails, SessionEnds, ActionType, Actions, Cleared
  <2>2. (FlagType /\ ConfigType /\ LockType /\ PageType /\ EditType)'
    BY <1>26 DEF SessionFails, SessionEnds, FlagType, ConfigType, LockType, PageType, EditType
  <2>. QED
    BY <2>1, <2>2
<1>27. CASE Crash
  <2>1. FlagType'
    <3>1. Loads(disk) \in BOOLEAN
      BY Zenon DEF Loads
    <3>2. alive' = Loads(disk) /\ failed' = FALSE /\ adrift' = FALSE
      BY <1>27, Zenon DEF Crash, Start
    <3>. QED
      BY <3>1, <3>2, Zenon DEF FlagType
  <2>2. ActionType'
    BY <1>27 DEF Crash, Start, SessionEnds, ActionType, Actions, Cleared
  <2>3. ConfigType'
    BY <1>27, EmptyType, LoadType DEF Crash, Start, SessionEnds, ConfigType, PageType, EditType,
           Goto
  <2>4. LockType'
    BY <1>27, ClientsAssumption DEF Crash, Start, SessionEnds, LockType, Goto, Idle, Free,
           Holding, Clients
  <2>5. PageType'
    BY <1>27, EmptyType DEF Crash, Start, SessionEnds, PageType, ConfigType, EditType, Setting,
           Text, Values, Options
  <2>6. EditType'
    BY <1>27, EmptyType, EditsAssumption DEF Crash, Start, SessionEnds, EditType, PageType,
           Texts, Options, Values
  <2>. QED
    BY <2>1, <2>2, <2>3, <2>4, <2>5, <2>6
<1>29. ASSUME NEW c \in Clients, SaveFails(c) PROVE Parts'
  <2>1. FlagType'
    BY <1>29, Zenon DEF SaveFails, FlagType
  <2>2. ConfigType'
    BY <1>29 DEF SaveFails, ConfigType
  <2>3. LockType'
    BY <1>29, ClientsAssumption DEF SaveFails, LockType, Goto, Idle, Free, Holding, Clients
  <2>4. PageType'
    BY <1>29, EmptyType DEF SaveFails, PageType
  <2>5. EditType'
    BY <1>29, NoEditType DEF SaveFails, EditType
  <2>6. ActionType'
    BY <1>29 DEF SaveFails, ActionType
  <2>. QED
    BY <2>1, <2>2, <2>3, <2>4, <2>5, <2>6
<1>30. ASSUME NEW c \in Clients, WriteEntryFails(c) PROVE Parts'
  <2>1. FlagType'
    BY <1>30, Zenon DEF WriteEntryFails, FlagType
  <2>2. ConfigType'
    BY <1>30 DEF WriteEntryFails, ConfigType
  <2>3. LockType'
    BY <1>30, ClientsAssumption DEF WriteEntryFails, LockType, Goto, Idle, Free, Holding, Clients
  <2>4. PageType'
    BY <1>30, EmptyType DEF WriteEntryFails, PageType
  <2>5. EditType'
    BY <1>30, NoEditType DEF WriteEntryFails, EditType
  <2>6. ActionType'
    BY <1>30 DEF WriteEntryFails, ActionType
  <2>. QED
    BY <2>1, <2>2, <2>3, <2>4, <2>5, <2>6
<1>31. CASE UserStops
  <2>1. ActionType'
    BY <1>31 DEF UserStops, ActionType, Actions
  <2>2. (FlagType /\ ConfigType /\ LockType /\ PageType /\ EditType)'
    BY <1>31 DEF UserStops, FlagType, ConfigType, LockType, PageType, EditType
  <2>. QED
    BY <2>1, <2>2
<1>28. CASE UNCHANGED vars
  BY <1>28 DEF vars, FlagType, ActionType, ConfigType, LockType, PageType, EditType
<1>. QED
  BY <1>1, <1>2, <1>3, <1>4, <1>5, <1>6, <1>7, <1>8, <1>9, <1>10, <1>11, <1>12, <1>13, <1>14,
         <1>15, <1>16, <1>17, <1>18, <1>19, <1>20, <1>21, <1>22, <1>23, <1>24, <1>25, <1>26,
         <1>27, <1>28, <1>29, <1>30, <1>31 DEF Next, Request, Monitor, Handler, Session

\* Every variable stays in its domain (TypeOK), whoever requests what.
THEOREM TypeCorrect == Spec => []TypeOK
  BY InitTypeOK, TypeParts, NextParts, PTL DEF Spec

---------------------------------------------------------------------------
(* Memory and file.                                                        *)

LEMMA InitFileInv == Init => FileInv
<1>. SUFFICES ASSUME Init PROVE FileInv
  OBVIOUS
<1>1. NoOrphan /\ Agree /\ disk = last
  BY DEF Init, NoOrphan, NoWrite, Agree
<1>2. \A c \in Clients : pc[c] = "idle"
  BY DEF Init
<1>. QED
  BY <1>1, <1>2 DEF FileInv, OrphansAdrift, AgreeInv, WriteInv, LastInv, EditInv

\* Who holds the lock is alone with the file, but for the writes of clients that left.
LEMMA Exclusive ==
  ASSUME LockType, NEW c \in Clients, pc[c] \in Holding
  PROVE  lock = c /\ lock # "free" /\ \A d \in Clients \ {c} : pc[d] \notin Holding
  BY ClientsAssumption DEF LockType, Clients

LEMMA NextFileInv == Parts /\ FileInv /\ [Next]_vars => FileInv'
<1>. SUFFICES ASSUME Parts, FileInv, [Next]_vars PROVE FileInv'
  OBVIOUS
<1>. USE DEF FileInv, Parts, Goto, Holding, memVars, clientVars, certVars, sessionVars,
       historyVars
<1>. DEFINE Same == UNCHANGED <<alive, mem, lock, disk, pc, edit, doc, orphan, last, adrift>>
<1>0. ASSUME Same PROVE FileInv'
  BY <1>0 DEF OrphansAdrift, NoOrphan, AgreeInv, Agree, WriteInv, LastInv, EditInv
<1>. HIDE DEF Same
<1>1. ASSUME NEW c \in Clients, ReadPage(c) PROVE FileInv'
  BY <1>1, <1>0 DEF ReadPage, Same
<1>2. ASSUME NEW c \in Clients, SetConfig(c) PROVE FileInv'
  <2>1. OrphansAdrift'
    BY <1>2, Exclusive DEF SetConfig, Replace, LockType, OrphansAdrift, NoOrphan, NoWrite,
           EditType
  <2>2. AgreeInv'
    BY <1>2, Exclusive DEF SetConfig, Replace, LockType, AgreeInv, Agree, Free, OrphansAdrift,
           ConfigType
  <2>3. WriteInv'
    <3>1. \A d \in Clients : pc[d] \notin Holding
      BY <1>2, Exclusive DEF SetConfig, Free
    <3>2. pc' = [pc EXCEPT ![c] = "save"]
      BY <1>2 DEF SetConfig, Replace, Goto
    <3>. QED
      BY <3>1, <3>2 DEF WriteInv, LockType, Holding
  <2>4. LastInv'
    BY <1>2, Exclusive DEF SetConfig, Replace, LockType, LastInv, EditType, NoWrite
  <2>5. EditInv'
    BY <1>2, Exclusive DEF SetConfig, Replace, LockType, EditInv, PageType, EditType
  <2>. QED
    BY <2>1, <2>2, <2>3, <2>4, <2>5
<1>3. ASSUME NEW c \in Clients, UpdateConfig(c) PROVE FileInv'
  <2>1. OrphansAdrift'
    BY <1>3, Exclusive DEF UpdateConfig, Replace, LockType, OrphansAdrift, NoOrphan, NoWrite,
           EditType
  <2>2. AgreeInv'
    BY <1>3, Exclusive DEF UpdateConfig, Replace, LockType, AgreeInv, Agree, Free,
           OrphansAdrift, ConfigType
  <2>3. WriteInv'
    <3>1. \A d \in Clients : pc[d] \notin Holding
      BY <1>3, Exclusive DEF UpdateConfig, Free
    <3>2. pc' = [pc EXCEPT ![c] = "save"]
      BY <1>3 DEF UpdateConfig, Replace, Goto
    <3>. QED
      BY <3>1, <3>2 DEF WriteInv, LockType, Holding
  <2>4. LastInv'
    BY <1>3, Exclusive DEF UpdateConfig, Replace, LockType, LastInv, EditType, NoWrite
  <2>5. EditInv'
    BY <1>3, Exclusive DEF UpdateConfig, Replace, LockType, EditInv, PageType, EditType
  <2>. QED
    BY <2>1, <2>2, <2>3, <2>4, <2>5
<1>4. ASSUME NEW c \in Clients, UpdateEntry(c) PROVE FileInv'
  <2>1. OrphansAdrift'
    BY <1>4, Exclusive DEF UpdateEntry, LockType, OrphansAdrift, NoOrphan, NoWrite, EditType
  <2>2. AgreeInv'
    BY <1>4, Exclusive DEF UpdateEntry, LockType, AgreeInv, Agree, Free, OrphansAdrift, ConfigType
  <2>3. WriteInv'
    BY <1>4, Exclusive DEF UpdateEntry, LockType, WriteInv, PageType, Save
  <2>4. LastInv'
    BY <1>4, Exclusive DEF UpdateEntry, LockType, LastInv, EditType, NoWrite
  <2>5. EditInv'
    BY <1>4, Exclusive DEF UpdateEntry, LockType, EditInv, PageType, EditType
  <2>. QED
    BY <2>1, <2>2, <2>3, <2>4, <2>5
<1>5. ASSUME NEW c \in Clients, UploadCerts(c) PROVE FileInv'
  <2>1. OrphansAdrift'
    BY <1>5, Exclusive DEF UploadCerts, Clean, LockType, OrphansAdrift, NoOrphan, NoWrite,
           EditType
  <2>2. AgreeInv'
    BY <1>5, Exclusive DEF UploadCerts, Clean, LockType, AgreeInv, Agree, Free, OrphansAdrift,
           ConfigType
  <2>3. WriteInv'
    BY <1>5, Exclusive DEF UploadCerts, Clean, LockType, WriteInv, PageType, Save
  <2>4. LastInv'
    BY <1>5, Exclusive DEF UploadCerts, Clean, LockType, LastInv, EditType, NoWrite
  <2>5. EditInv'
    BY <1>5, Exclusive DEF UploadCerts, Clean, LockType, EditInv, PageType, EditType
  <2>. QED
    BY <2>1, <2>2, <2>3, <2>4, <2>5
<1>6. ASSUME NEW c \in Clients, UpdateCerts(c) PROVE FileInv'
  <2>1. OrphansAdrift'
    BY <1>6, Exclusive DEF UpdateCerts, Clean, LockType, OrphansAdrift, NoOrphan, NoWrite,
           EditType
  <2>2. AgreeInv'
    BY <1>6, Exclusive DEF UpdateCerts, Clean, LockType, AgreeInv, Agree, Free, OrphansAdrift,
           ConfigType
  <2>3. WriteInv'
    BY <1>6, Exclusive DEF UpdateCerts, Clean, LockType, WriteInv, PageType, Save
  <2>4. LastInv'
    BY <1>6, Exclusive DEF UpdateCerts, Clean, LockType, LastInv, EditType, NoWrite
  <2>5. EditInv'
    BY <1>6, Exclusive DEF UpdateCerts, Clean, LockType, EditInv, PageType, EditType
  <2>. QED
    BY <2>1, <2>2, <2>3, <2>4, <2>5
<1>7. ASSUME NEW c \in Clients, Truncate(c) PROVE FileInv'
  <2>1. OrphansAdrift'
    BY <1>7, Exclusive DEF Truncate, LockType, OrphansAdrift, NoOrphan, NoWrite, EditType
  <2>2. AgreeInv'
    BY <1>7, Exclusive DEF Truncate, LockType, AgreeInv, Agree, Free, OrphansAdrift, ConfigType
  <2>3. WriteInv'
    BY <1>7, Exclusive DEF Truncate, LockType, WriteInv, PageType, Save
  <2>4. LastInv'
    BY <1>7, Exclusive DEF Truncate, LockType, LastInv, EditType, NoWrite
  <2>5. EditInv'
    BY <1>7, Exclusive DEF Truncate, LockType, EditInv, PageType, EditType
  <2>. QED
    BY <2>1, <2>2, <2>3, <2>4, <2>5
<1>8. ASSUME NEW c \in Clients, Write(c) PROVE FileInv'
  <2>1. OrphansAdrift'
    BY <1>8, Exclusive DEF Write, LockType, OrphansAdrift, NoOrphan, NoWrite, EditType
  <2>2. AgreeInv'
    BY <1>8, Exclusive DEF Write, LockType, AgreeInv, Agree, Free, OrphansAdrift, ConfigType,
           WriteInv, Load, Setting
  <2>3. WriteInv'
    BY <1>8, Exclusive DEF Write, LockType, WriteInv, PageType, Save
  <2>4. LastInv'
    BY <1>8, Exclusive DEF Write, LockType, LastInv, EditType, NoWrite
  <2>5. EditInv'
    BY <1>8, Exclusive DEF Write, LockType, EditInv, PageType, EditType
  <2>. QED
    BY <2>1, <2>2, <2>3, <2>4, <2>5
<1>9. ASSUME NEW c \in Clients, ReadFile(c) PROVE FileInv'
  <2>1. OrphansAdrift'
    BY <1>9, Exclusive DEF ReadFile, LockType, OrphansAdrift, NoOrphan, NoWrite, EditType
  <2>2. AgreeInv'
    BY <1>9, Exclusive DEF ReadFile, LockType, AgreeInv, Agree, Free, OrphansAdrift, ConfigType
  <2>3. WriteInv'
    BY <1>9, Exclusive DEF ReadFile, LockType, WriteInv, PageType, Save
  <2>4. LastInv'
    BY <1>9, Exclusive DEF ReadFile, LockType, LastInv, EditType, NoWrite
  <2>5. EditInv'
    <3>1. pc[c] = "entry" /\ UNCHANGED <<disk, last, orphan, adrift>>
      BY <1>9 DEF ReadFile, historyVars
    <3>2. \A d \in Clients \ {c} : pc'[d] = pc[d] /\ pc[d] \notin Holding
      BY <1>9, <3>1, Exclusive DEF ReadFile, LockType
    <3>3. ~adrift => disk = last
      BY <3>1, <3>2 DEF OrphansAdrift, NoOrphan, LastInv, Holding
    <3>4. CASE pc'[c] = "truncate"
      <4>1. doc' = [doc EXCEPT ![c] = [disk EXCEPT ![edit[c][1]] = edit[c][2]]] /\ edit' = edit
        BY <1>9, <3>4 DEF ReadFile, Goto, LockType
      <4>2. \A o \in Options \ {edit[c][1]} : doc'[c][o] = disk[o]
        BY <4>1 DEF PageType, ConfigType, Text
      <4>. QED
        BY <3>1, <3>2, <3>3, <4>1, <4>2 DEF EditInv, Holding
    <3>5. CASE pc'[c] = "idle"
      BY <3>2, <3>5 DEF EditInv, Holding
    <3>. QED
      BY <1>9, <3>4, <3>5 DEF ReadFile, Goto, LockType
  <2>. QED
    BY <2>1, <2>2, <2>3, <2>4, <2>5
<1>10. ASSUME NEW c \in Clients, TruncateEntry(c) PROVE FileInv'
  <2>1. OrphansAdrift'
    BY <1>10, Exclusive DEF TruncateEntry, LockType, OrphansAdrift, NoOrphan, NoWrite, EditType
  <2>2. AgreeInv'
    BY <1>10, Exclusive DEF TruncateEntry, LockType, AgreeInv, Agree, Free, OrphansAdrift,
           ConfigType
  <2>3. WriteInv'
    BY <1>10, Exclusive DEF TruncateEntry, LockType, WriteInv, PageType, Save
  <2>4. LastInv'
    BY <1>10, Exclusive DEF TruncateEntry, LockType, LastInv, EditType, NoWrite
  <2>5. EditInv'
    BY <1>10, Exclusive DEF TruncateEntry, LockType, EditInv, PageType, EditType
  <2>. QED
    BY <2>1, <2>2, <2>3, <2>4, <2>5
<1>11. ASSUME NEW c \in Clients, WriteEntry(c) PROVE FileInv'
  <2>1. OrphansAdrift'
    BY <1>11, Exclusive DEF WriteEntry, LockType, OrphansAdrift, NoOrphan, NoWrite, EditType
  <2>2. AgreeInv'
    BY <1>11, Exclusive DEF WriteEntry, LockType, AgreeInv, Agree, Free, OrphansAdrift, ConfigType
  <2>3. WriteInv'
    BY <1>11, Exclusive DEF WriteEntry, LockType, WriteInv, PageType, Save
  <2>4. LastInv'
    BY <1>11, Exclusive DEF WriteEntry, LockType, LastInv, EditType, NoWrite
  <2>5. EditInv'
    BY <1>11, Exclusive DEF WriteEntry, LockType, EditInv, PageType, EditType
  <2>. QED
    BY <2>1, <2>2, <2>3, <2>4, <2>5
<1>12. ASSUME NEW c \in Clients, LoadEntry(c) PROVE FileInv'
  <2>1. OrphansAdrift'
    BY <1>12, Exclusive DEF LoadEntry, LockType, OrphansAdrift, NoOrphan, NoWrite, EditType
  <2>2. AgreeInv'
    BY <1>12, Exclusive DEF LoadEntry, LockType, AgreeInv, Agree, Free, OrphansAdrift, ConfigType
  <2>3. WriteInv'
    BY <1>12, Exclusive DEF LoadEntry, LockType, WriteInv, PageType, Save
  <2>4. LastInv'
    BY <1>12, Exclusive DEF LoadEntry, LockType, LastInv, EditType, NoWrite
  <2>5. EditInv'
    BY <1>12, Exclusive DEF LoadEntry, LockType, EditInv, PageType, EditType
  <2>. QED
    BY <2>1, <2>2, <2>3, <2>4, <2>5
<1>13. ASSUME NEW c \in Clients, Unpack(c) PROVE FileInv'
  <2>1. OrphansAdrift'
    BY <1>13, Exclusive DEF Unpack, LockType, OrphansAdrift, NoOrphan, NoWrite, EditType
  <2>2. AgreeInv'
    BY <1>13, Exclusive DEF Unpack, LockType, AgreeInv, Agree, Free, OrphansAdrift, ConfigType
  <2>3. WriteInv'
    BY <1>13, Exclusive DEF Unpack, LockType, WriteInv, PageType, Save
  <2>4. LastInv'
    BY <1>13, Exclusive DEF Unpack, LockType, LastInv, EditType, NoWrite
  <2>5. EditInv'
    BY <1>13, Exclusive DEF Unpack, LockType, EditInv, PageType, EditType
  <2>. QED
    BY <2>1, <2>2, <2>3, <2>4, <2>5
<1>14. ASSUME NEW c \in Clients, NEW f \in Files, Copy(c, f) PROVE FileInv'
  <2>1. OrphansAdrift'
    BY <1>14, Exclusive DEF Copy, LockType, OrphansAdrift, NoOrphan, NoWrite, EditType
  <2>2. AgreeInv'
    BY <1>14, Exclusive DEF Copy, LockType, AgreeInv, Agree, Free, OrphansAdrift, ConfigType
  <2>3. WriteInv'
    BY <1>14, Exclusive DEF Copy, LockType, WriteInv, PageType, Save
  <2>4. LastInv'
    <3>1. pc[c] \in {"cert", "key"} /\ pc' = [pc EXCEPT ![c] = pc'[c]] /\ UNCHANGED <<orphan, disk, last>>
      BY <1>14 DEF Copy, Goto, LockType, Files, historyVars
    <3>. QED
      BY <3>1 DEF LastInv, LockType
  <2>5. EditInv'
    BY <1>14, Exclusive DEF Copy, LockType, EditInv, PageType, EditType
  <2>. QED
    BY <2>1, <2>2, <2>3, <2>4, <2>5
<1>15. ASSUME NEW c \in Clients, Abandon(c) PROVE FileInv'
  <2>1. OrphansAdrift'
    BY <1>15, Exclusive DEF Abandon, LockType, OrphansAdrift, NoOrphan, NoWrite, EditType
  <2>2. AgreeInv'
    BY <1>15, Exclusive DEF Abandon, LockType, AgreeInv, Agree, Free, OrphansAdrift, ConfigType
  <2>3. WriteInv'
    BY <1>15, Exclusive DEF Abandon, LockType, WriteInv, PageType, Save
  <2>4. LastInv'
    <3>. SUFFICES ASSUME \A d \in Clients : orphan'[d].pc # "fill" /\ pc'[d] \notin {"write", "fill"}
                  PROVE  disk' = last'
      BY DEF LastInv
    <3>1. pc[c] \in {"entry", "truncate", "fill"} /\ orphan[c] = NoWrite
      BY <1>15, Zenon DEF Abandon
    <3>2. pc[c] # "entry" => orphan' = [orphan EXCEPT ![c] = [pc |-> pc[c], doc |-> doc[c]]]
      BY <1>15 DEF Abandon
    <3>3. pc[c] # "fill"
      BY <3>1, <3>2 DEF EditType
    <3>4. \A d \in Clients \ {c} : pc'[d] = pc[d] /\ orphan'[d] = orphan[d]
      BY <1>15, <3>2 DEF Abandon, Goto, LockType, EditType
    <3>5. disk = last
      BY <3>1, <3>3, <3>4 DEF LastInv, NoWrite
    <3>. QED
      BY <1>15, <3>5 DEF Abandon
  <2>5. EditInv'
    BY <1>15, Exclusive DEF Abandon, LockType, EditInv, PageType, EditType
  <2>. QED
    BY <2>1, <2>2, <2>3, <2>4, <2>5
<1>16. ASSUME NEW c \in Clients, OrphanWrites(c) PROVE FileInv'
  <2>1. OrphansAdrift'
    BY <1>16, Exclusive DEF OrphanWrites, LockType, OrphansAdrift, NoOrphan, NoWrite, EditType
  <2>2. AgreeInv'
    <3>1. orphan[c].pc # "none" /\ UNCHANGED adrift
      BY <1>16 DEF OrphanWrites
    <3>. QED
      BY <3>1 DEF OrphansAdrift, NoOrphan, AgreeInv
  <2>3. WriteInv'
    BY <1>16, Exclusive DEF OrphanWrites, LockType, WriteInv, PageType, Save
  <2>4. LastInv'
    BY <1>16, Exclusive DEF OrphanWrites, LockType, LastInv, EditType, NoWrite
  <2>5. EditInv'
    <3>1. orphan[c].pc # "none" /\ UNCHANGED adrift
      BY <1>16 DEF OrphanWrites
    <3>. QED
      BY <3>1 DEF OrphansAdrift, NoOrphan, EditInv
  <2>. QED
    BY <2>1, <2>2, <2>3, <2>4, <2>5
<1>17. ASSUME NEW a \in Cleared, RequestAction(a) PROVE FileInv'
  BY <1>17, <1>0 DEF RequestAction, Same
<1>18. CASE MonitorReads
  BY <1>18, <1>0 DEF MonitorReads, SessionEnds, Same
<1>19. CASE MonitorClears
  BY <1>19, <1>0 DEF MonitorClears, SessionEnds, Same
<1>20. CASE HandlerReads
  BY <1>20, <1>0 DEF HandlerReads, Same
<1>21. CASE Reboot
  <2>1. OrphansAdrift'
    BY <1>21 DEF Reboot, Start, SessionEnds, LockType, OrphansAdrift, NoOrphan, NoWrite, EditType
  <2>2. AgreeInv'
    BY <1>21 DEF Reboot, Start, SessionEnds, LockType, AgreeInv, Agree, Free, OrphansAdrift,
           ConfigType
  <2>3. WriteInv'
    BY <1>21 DEF Reboot, Start, SessionEnds, LockType, WriteInv, PageType, Save
  <2>4. LastInv'
    BY <1>21 DEF Reboot, Start, SessionEnds, LockType, LastInv, EditType, NoWrite
  <2>5. EditInv'
    BY <1>21 DEF Reboot, Start, SessionEnds, LockType, EditInv, PageType, EditType
  <2>. QED
    BY <2>1, <2>2, <2>3, <2>4, <2>5
<1>22. CASE Stall
  BY <1>22, <1>0 DEF Stall, SessionEnds, Same
<1>23. ASSUME NEW p \in Proxies, ReadMode(p) PROVE FileInv'
  BY <1>23, <1>0 DEF ReadMode, Same
<1>24. ASSUME NEW p \in Proxies, BuildTls(p) PROVE FileInv'
  BY <1>24, <1>0 DEF BuildTls, Same
<1>25. ASSUME NEW p \in Proxies, TlsFails(p) PROVE FileInv'
  BY <1>25, <1>0 DEF TlsFails, SessionEnds, Same
<1>26. CASE SessionFails
  BY <1>26, <1>0 DEF SessionFails, SessionEnds, Same
<1>27. CASE Crash
  <2>1. OrphansAdrift'
    BY <1>27 DEF Crash, Start, SessionEnds, LockType, OrphansAdrift, NoOrphan, NoWrite, EditType
  <2>2. AgreeInv'
    BY <1>27 DEF Crash, Start, SessionEnds, LockType, AgreeInv, Agree, Free, OrphansAdrift,
           ConfigType
  <2>3. WriteInv'
    BY <1>27 DEF Crash, Start, SessionEnds, LockType, WriteInv, PageType, Save
  <2>4. LastInv'
    BY <1>27 DEF Crash, Start, SessionEnds, LockType, LastInv, EditType, NoWrite
  <2>5. EditInv'
    BY <1>27 DEF Crash, Start, SessionEnds, LockType, EditInv, PageType, EditType
  <2>. QED
    BY <2>1, <2>2, <2>3, <2>4, <2>5
<1>29. ASSUME NEW c \in Clients, SaveFails(c) PROVE FileInv'
  <2>1. OrphansAdrift' /\ AgreeInv' /\ EditInv'
    BY <1>29 DEF SaveFails, OrphansAdrift, AgreeInv, EditInv
  <2>2. WriteInv'
    BY <1>29, Exclusive DEF SaveFails, LockType, WriteInv, PageType
  <2>3. LastInv'
    BY <1>29 DEF SaveFails, LastInv
  <2>. QED
    BY <2>1, <2>2, <2>3
<1>30. ASSUME NEW c \in Clients, WriteEntryFails(c) PROVE FileInv'
  <2>1. OrphansAdrift' /\ AgreeInv' /\ EditInv'
    BY <1>30 DEF WriteEntryFails, OrphansAdrift, AgreeInv, EditInv
  <2>2. WriteInv'
    BY <1>30, Exclusive DEF WriteEntryFails, LockType, WriteInv, PageType
  <2>3. LastInv'
    BY <1>30 DEF WriteEntryFails, LastInv
  <2>. QED
    BY <2>1, <2>2, <2>3
<1>31. CASE UserStops
  BY <1>31, <1>0 DEF UserStops, Same
<1>28. CASE UNCHANGED vars
  BY <1>28, <1>0 DEF vars, Same
<1>. QED
  BY <1>1, <1>2, <1>3, <1>4, <1>5, <1>6, <1>7, <1>8, <1>9, <1>10, <1>11, <1>12, <1>13, <1>14,
         <1>15, <1>16, <1>17, <1>18, <1>19, <1>20, <1>21, <1>22, <1>23, <1>24, <1>25, <1>26,
         <1>27, <1>28, <1>29, <1>30, <1>31 DEF Next, Request, Monitor, Handler, Session

LEMMA FileInvAlways == Spec => []FileInv
  BY InitTypeOK, TypeParts, NextParts, InitFileInv, NextFileInv, PTL DEF Spec

\* Memory and file agree whenever nobody holds the lock (FileAgrees), for any
\* number of clients that save, edit and leave, of writes that fail and of crashes,
\* once a write was completed after the last that was not.
THEOREM MemoryIsFile == Spec => []FileAgrees
<1>1. FileInv => FileAgrees
  BY DEF FileInv, AgreeInv, FileAgrees, Agree, Free
<1>. QED
  BY <1>1, FileInvAlways, PTL

\* An edited entry leaves the rest of the text last written (EntryKeepsOthers).
THEOREM EntryIsLocal == Spec => EntryKeepsOthers
<1>. DEFINE Kept == \A c \in Browsers : pc[c] = "fill" /\ pc'[c] = "load" /\ ~adrift =>
                        \A o \in Options \ {edit[c][1]} : disk'[o] = last[o]
<1>1. Parts /\ FileInv /\ [Next]_vars => [Kept]_vars
  <2>. SUFFICES ASSUME Parts, FileInv, Next, NEW c \in Browsers, pc[c] = "fill", pc'[c] = "load",
                       ~adrift, NEW o \in Options \ {edit[c][1]}
                PROVE  disk'[o] = last[o]
    BY DEF vars
  <2>1. c \in Clients /\ lock = c
    BY Exclusive DEF Clients, Holding, Parts
  <2>2. WriteEntry(c)
    <3>. USE <2>1 DEF Parts, LockType, Goto, Idle, Holding
    <3>1. ASSUME NEW d \in Clients, Truncate(d) \/ Write(d) \/ ReadFile(d) \/ TruncateEntry(d)
          PROVE FALSE
      BY <3>1 DEF Truncate, Write, ReadFile, TruncateEntry
    <3>2. ASSUME NEW d \in Clients, LoadEntry(d) \/ Unpack(d) \/ \E f \in Files : Copy(d, f)
          PROVE FALSE
      BY <3>2 DEF LoadEntry, Unpack, Copy, Files
    <3>3. ASSUME NEW d \in Clients, ReadPage(d) \/ SetConfig(d) \/ UpdateConfig(d) \/ UpdateEntry(d)
          PROVE FALSE
      BY <3>3 DEF ReadPage, SetConfig, UpdateConfig, UpdateEntry, Replace
    <3>4. ASSUME NEW d \in Clients, UploadCerts(d) \/ UpdateCerts(d) \/ Abandon(d) \/ OrphanWrites(d)
          PROVE FALSE
      BY <3>4 DEF UploadCerts, UpdateCerts, Clean, Abandon, OrphanWrites
    <3>5. CASE \/ UserStops \/ \E a \in Cleared : RequestAction(a)
               \/ MonitorReads \/ MonitorClears \/ HandlerReads \/ Session \/ SessionFails
      BY <3>5 DEF UserStops, RequestAction, MonitorReads, MonitorClears, HandlerReads, Session, Stall,
             ReadMode, BuildTls, TlsFails, SessionFails, clientVars
    <3>6. CASE Reboot \/ Crash
      BY <3>6 DEF Reboot, Crash, Start
    <3>7. ASSUME NEW d \in Clients, WriteEntry(d) PROVE c = d
      BY <3>7 DEF WriteEntry
    <3>8. ASSUME NEW d \in Clients, SaveFails(d) \/ WriteEntryFails(d) PROVE FALSE
      BY <3>8 DEF SaveFails, WriteEntryFails
    <3>. QED
      BY <3>1, <3>2, <3>3, <3>4, <3>5, <3>6, <3>7, <3>8 DEF Next, Request, Monitor, Handler
  <2>. QED
    BY <2>1, <2>2 DEF WriteEntry, FileInv, EditInv
<1>. QED
  BY <1>1, InitTypeOK, TypeParts, NextParts, FileInvAlways, PTL DEF Spec, EntryKeepsOthers

---------------------------------------------------------------------------
(* Actions.                                                                *)

LEMMA InitServedInv == Init => ServedInv
<1>. SUFFICES ASSUME Init PROVE ServedInv
  OBVIOUS
<1>1. action = "none" /\ monitor = "poll" /\ handler = "poll"
  BY DEF Init
<1>2. served["reboot"] = 0 /\ asked["reboot"] = 0 /\ served["reconnect"] = 0 /\ asked["reconnect"] = 0
  BY DEF Init, Cleared
<1>. QED
  BY <1>1, <1>2 DEF ServedInv, RebootInv, ReconnectInv

LEMMA NextServedInv == ActionType /\ ServedInv /\ [Next]_vars => ServedInv'
<1>. SUFFICES ASSUME ActionType, ServedInv, [Next]_vars PROVE ServedInv'
  OBVIOUS
<1>. USE DEF ServedInv, RebootInv, ReconnectInv, ActionType, Actions, Cleared, memVars, clientVars,
       certVars, sessionVars, historyVars
<1>1. ASSUME NEW c \in Clients, ReadPage(c) PROVE ServedInv'
  BY <1>1 DEF ReadPage
<1>2. ASSUME NEW c \in Clients, SetConfig(c) PROVE ServedInv'
  BY <1>2 DEF SetConfig, Replace
<1>3. ASSUME NEW c \in Clients, UpdateConfig(c) PROVE ServedInv'
  BY <1>3 DEF UpdateConfig, Replace
<1>4. ASSUME NEW c \in Clients, UpdateEntry(c) PROVE ServedInv'
  BY <1>4 DEF UpdateEntry
<1>5. ASSUME NEW c \in Clients, UploadCerts(c) PROVE ServedInv'
  BY <1>5 DEF UploadCerts, Clean
<1>6. ASSUME NEW c \in Clients, UpdateCerts(c) PROVE ServedInv'
  BY <1>6 DEF UpdateCerts, Clean
<1>7. ASSUME NEW c \in Clients, Request(c) PROVE ServedInv'
  <2>1. UNCHANGED <<monitor, handler, asked, served>> /\ (action' = action \/ action' = "none")
    BY <1>7 DEF Request, Truncate, Write, ReadFile, TruncateEntry, WriteEntry, LoadEntry,
           SaveFails, WriteEntryFails, Unpack, Copy, memVars, sessionVars, historyVars
  <2>. QED
    BY <2>1
<1>8. ASSUME NEW c \in Clients, Abandon(c) PROVE ServedInv'
  BY <1>8 DEF Abandon
<1>9. ASSUME NEW c \in Clients, OrphanWrites(c) PROVE ServedInv'
  BY <1>9 DEF OrphanWrites
<1>10. ASSUME NEW a \in Cleared, RequestAction(a) PROVE ServedInv'
  BY <1>10 DEF RequestAction
<1>11. CASE MonitorReads
  BY <1>11 DEF MonitorReads, SessionEnds
<1>12. CASE MonitorClears
  BY <1>12 DEF MonitorClears, SessionEnds
<1>13. CASE HandlerReads
  BY <1>13 DEF HandlerReads
<1>14. CASE Reboot
  <2>1. /\ action' = "none" /\ monitor' = "poll" /\ handler' = "poll" /\ asked' = asked
        /\ handler = "clear" /\ served' = [served EXCEPT !["reboot"] = served["reboot"] + 1]
    BY <1>14, Zenon DEF Reboot, Start, SessionEnds
  <2>. QED
    BY <2>1
<1>15. CASE Session
  BY <1>15 DEF Session, Stall, ReadMode, BuildTls, TlsFails, SessionEnds
<1>16. CASE SessionFails
  BY <1>16 DEF SessionFails, SessionEnds
<1>17. CASE Crash
  <2>1. /\ action' = "none" /\ monitor' = "poll" /\ handler' = "poll"
        /\ UNCHANGED <<asked, served>>
    BY <1>17, Zenon DEF Crash, Start, SessionEnds
  <2>. QED
    BY <2>1
<1>19. CASE UserStops
  BY <1>19 DEF UserStops
<1>18. CASE UNCHANGED vars
  BY <1>18 DEF vars
<1>. QED
  BY <1>1, <1>2, <1>3, <1>4, <1>5, <1>6, <1>7, <1>8, <1>9, <1>10, <1>11, <1>12, <1>13, <1>14,
         <1>15, <1>16, <1>17, <1>18, <1>19 DEF Next, Monitor, Handler

\* No reconnect and no reboot is carried out more often than it was asked for
\* (ServedOnce): not after a reload, a replaced configuration or a restart.
THEOREM NotServedAgain == Spec => []ServedOnce
<1>1. Parts => ActionType
  BY DEF Parts
<1>2. ActionType /\ ServedInv => ServedOnce
  BY DEF ActionType, ServedInv, RebootInv, ReconnectInv, ServedOnce, Cleared
<1>. QED
  BY <1>1, <1>2, InitTypeOK, TypeParts, NextParts, InitServedInv, NextServedInv, PTL DEF Spec

=============================================================================
