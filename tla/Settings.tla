------------------------------ MODULE Settings ------------------------------
(***************************************************************************)
(* The shared configuration and its file (config.rs), those who replace or *)
(* edit it over HTTP and Bluetooth LE (web.rs, btle.rs), and those who     *)
(* read it: the two proxies of a session when it begins, the monitor of    *)
(* the session and the action handler, which look for a pending action in  *)
(* it. The certificates the proxies load come from uploads of the same     *)
(* clients. The program may crash, or the box lose its power, at any time: *)
(* what is left is the file, whose writing takes more than one step, and   *)
(* may fail at each.                                                       *)
(* One optional setting stands for those that a form may leave empty.      *)
(***************************************************************************)
EXTENDS Naturals, FiniteSets

CONSTANTS
    Browsers,          \* clients of the web server
    Phones,            \* clients over Bluetooth LE
    Usable,            \* versions of the certificates that car and phone accept ...
    Unusable,          \* ... and those they do not
    Edits,             \* the settings clients change
    MaxInputs, MaxCrashes \* bounds

ASSUME ClientsAssumption ==
    Browsers \cap Phones = {} /\ "free" \notin Browsers \cup Phones
ASSUME VersionsAssumption == Usable \cap Unusable = {} /\ Usable \cup Unusable \subseteq Nat \ {0}
ASSUME EditsAssumption == Edits \subseteq {"mitm", "alias"}
ASSUME BoundsAssumption == {MaxInputs, MaxCrashes} \subseteq Nat

VARIABLES
    alive,           \* the program runs; it does not if its file cannot be parsed
    mem, failed, action, \* the configuration, with its two fields that are not saved
    lock,            \* who holds its write lock
    disk,            \* the file
    pc, page, edit, doc, \* the clients: request, page on the screen, entry, text to write
    orphan,          \* the write of a request whose client has left
    tmp, pem,        \* the unpacked certificates, those installed
    mode, monitor, handler, \* the proxies' modes, the session's monitor, the handler
    inputs, crashes, \* counters of the bounds
    last,            \* history: the text the last write left in the file ...
    adrift,          \* ... a client left or a write failed, and none was completed since ...
    asked, served    \* ... actions requested, and carried out

memVars     == <<mem, failed, action>>
clientVars  == <<pc, page, edit, doc, orphan>>
certVars    == <<tmp, pem>>
sessionVars == <<mode, monitor, handler>>
historyVars == <<last, adrift, asked, served>>
vars == <<alive, memVars, lock, disk, clientVars, certVars, sessionVars, inputs, crashes,
          historyVars>>

Clients  == Browsers \cup Phones
Versions == Usable \cup Unusable
Options  == {"mitm", "alias"}
Optional == {"alias"}
\* "": a field left empty, None in memory; "bad": a text that is no value.
Values   == [mitm |-> {"on", "off"}, alias |-> {"on", ""}]
Default  == [o \in Options |-> IF o = "mitm" THEN "off" ELSE ""]
\* What an entry of the file may be.
Texts    == {"on", "off", "", "bad", "absent"}
Empty    == [o \in Options |-> "absent"]
Proxies  == {"hu", "md"}
\* A reconnect and a reboot are cleared when they are carried out, a stop is not.
Cleared  == {"reconnect", "reboot"}
Actions  == Cleared \cup {"stop"}
Files    == {"cert", "key"}

\* AppConfig::load: what is missing in the file has its default. It fails if an
\* entry cannot be parsed.
Loads(d) == \A o \in Options : d[o] # "bad"
Load(d)  == [o \in Options |-> IF d[o] = "absent" THEN Default[o] ELSE d[o]]

\* AppConfig::save: an optional setting without a value leaves the entry of the
\* file as it is.
Save(d, c) == [o \in Options |-> IF o \in Optional /\ c[o] = "" THEN d[o] ELSE c[o]]

\* Where a request holds the lock.
Holding == {"save", "write", "entry", "truncate", "fill", "load"}

Free == lock = "free"
NoOrphan == \A c \in Clients : orphan[c].pc = "none"
NoWrite  == [pc |-> "none", doc |-> Empty]
Idle(c)  == alive /\ pc[c] = "idle"
Goto(c, from, to) == alive /\ pc[c] = from /\ pc' = [pc EXCEPT ![c] = to]
Input == alive /\ inputs < MaxInputs /\ inputs' = inputs + 1

---------------------------------------------------------------------------
Init ==
    /\ disk = Empty \/ disk \in {d \in [Options -> {"on", ""}] : d["mitm"] = "on"}
    /\ alive = TRUE /\ mem = Load(disk) /\ failed = FALSE /\ action = "none" /\ lock = "free"
    /\ pc = [c \in Clients |-> "idle"] /\ page = [c \in Clients |-> mem]
    /\ edit = [c \in Clients |-> <<"none", "">>] /\ doc = [c \in Clients |-> Empty]
    /\ orphan = [c \in Clients |-> NoWrite]
    /\ tmp = 0 /\ \E v \in Usable : pem = [f \in Files |-> v]
    /\ mode = [p \in Proxies |-> "none"] /\ monitor = "poll" /\ handler = "poll"
    /\ inputs = 0 /\ crashes = 0 /\ last = disk /\ adrift = FALSE
    /\ asked = [a \in Cleared |-> 0] /\ served = [a \in Cleared |-> 0]

---------------------------------------------------------------------------
(* The form: a page shows the configuration as it was when it was loaded;  *)
(* saved, it replaces all of it, with the fields that are not on it reset. *)

\* get_config, and /get-config: what the client works on from here.
ReadPage(c) ==
    /\ Idle(c) /\ Free /\ Input /\ page' = [page EXCEPT ![c] = mem]
    /\ UNCHANGED <<alive, memVars, lock, disk, pc, edit, doc, orphan, certVars, sessionVars,
                   crashes, historyVars>>

\* Mutant: the pending action is taken from what the client sends.
ReplaceAction(c) ==
    /\ Input /\ lock' = c /\ Goto(c, "idle", "save")
    /\ \E o \in Edits : \E v \in Values[o] \ {page[c][o]} : page' = [page EXCEPT ![c][o] = v]
    /\ mem' = page'[c] /\ action' \in Actions \cup {"none"} /\ failed' = FALSE
    /\ UNCHANGED <<alive, disk, edit, doc, orphan, certVars, sessionVars, crashes, historyVars>>

\* The page, with one field changed, becomes the configuration.
Replace(c) ==
    /\ Input /\ lock' = c /\ Goto(c, "idle", "save")
    /\ \E o \in Edits : \E v \in Values[o] \ {page[c][o]} : page' = [page EXCEPT ![c][o] = v]
    /\ mem' = page'[c] /\ action' = "none" /\ failed' = FALSE
    /\ UNCHANGED <<alive, disk, edit, doc, orphan, certVars, sessionVars, crashes, historyVars>>

\* Mutant: the configuration is replaced without waiting for the lock.
SetConfigUnlocked(c) == c \in Browsers /\ Replace(c)

SetConfig(c) == c \in Browsers /\ Free /\ Replace(c)

\* /update-config, once the password is right.
UpdateConfig(c) == c \in Phones /\ Free /\ Replace(c)

\* fs::write makes the file empty before it writes the text.
Truncate(c) ==
    /\ Goto(c, "save", "write") /\ doc' = [doc EXCEPT ![c] = Save(disk, mem)] /\ disk' = Empty
    /\ UNCHANGED <<alive, memVars, lock, page, edit, orphan, certVars, sessionVars, inputs,
                   crashes, historyVars>>

Write(c) ==
    /\ Goto(c, "write", "idle") /\ disk' = doc[c] /\ last' = doc[c] /\ lock' = "free"
    /\ doc' = [doc EXCEPT ![c] = Empty]
    /\ adrift' = (adrift /\ ~NoOrphan)
    /\ UNCHANGED <<alive, memVars, page, edit, orphan, certVars, sessionVars, inputs, crashes,
                   asked, served>>

\* The file cannot be opened, or not be written once it is empty. The result
\* is ignored: the memory stays as the client wants it.
SaveFails(c) ==
    /\ \E at \in {"save", "write"} : Goto(c, at, "idle")
    /\ lock' = "free" /\ doc' = [doc EXCEPT ![c] = Empty] /\ last' = disk /\ adrift' = TRUE
    /\ UNCHANGED <<alive, memVars, disk, page, edit, orphan, certVars, sessionVars, inputs,
                   crashes, asked, served>>

---------------------------------------------------------------------------
(* A single entry: the file is edited, and then loaded.                    *)

\* Mutant: the file is edited without waiting for the lock.
UpdateEntryUnlocked(c) ==
    /\ c \in Browsers /\ Input /\ lock' = c /\ Goto(c, "idle", "entry")
    /\ \E o \in Edits : \E v \in Values[o] \cup {"bad"} : edit' = [edit EXCEPT ![c] = <<o, v>>]
    /\ UNCHANGED <<alive, memVars, disk, page, doc, orphan, certVars, sessionVars, crashes,
                   historyVars>>

UpdateEntry(c) ==
    /\ c \in Browsers /\ Free /\ Input /\ lock' = c /\ Goto(c, "idle", "entry")
    /\ \E o \in Edits : \E v \in Values[o] \cup {"bad"} : edit' = [edit EXCEPT ![c] = <<o, v>>]
    /\ UNCHANGED <<alive, memVars, disk, page, doc, orphan, certVars, sessionVars, crashes,
                   historyVars>>

\* An entry that the file does not have is refused.
ReadFile(c) ==
    /\ pc[c] = "entry"
    /\ \/ /\ disk[edit[c][1]] # "absent" /\ Goto(c, "entry", "truncate")
          /\ doc' = [doc EXCEPT ![c] = [disk EXCEPT ![edit[c][1]] = edit[c][2]]]
          /\ UNCHANGED <<lock, edit>>
       \/ /\ disk[edit[c][1]] = "absent" /\ Goto(c, "entry", "idle") /\ lock' = "free"
          /\ edit' = [edit EXCEPT ![c] = <<"none", "">>] /\ UNCHANGED doc
    /\ UNCHANGED <<alive, memVars, disk, page, orphan, certVars, sessionVars, inputs, crashes,
                   historyVars>>

TruncateEntry(c) ==
    /\ Goto(c, "truncate", "fill") /\ disk' = Empty
    /\ UNCHANGED <<alive, memVars, lock, page, edit, doc, orphan, certVars, sessionVars, inputs,
                   crashes, historyVars>>

WriteEntry(c) ==
    /\ Goto(c, "fill", "load") /\ disk' = doc[c] /\ last' = doc[c]
    /\ UNCHANGED <<alive, memVars, lock, page, edit, doc, orphan, certVars, sessionVars, inputs,
                   crashes, adrift, asked, served>>

\* The same failures, answered with an error: the file may be left empty.
WriteEntryFails(c) ==
    /\ \E at \in {"truncate", "fill"} : Goto(c, at, "idle")
    /\ lock' = "free" /\ edit' = [edit EXCEPT ![c] = <<"none", "">>]
    /\ doc' = [doc EXCEPT ![c] = Empty] /\ last' = disk /\ adrift' = TRUE
    /\ UNCHANGED <<alive, memVars, disk, page, orphan, certVars, sessionVars, inputs, crashes,
                   asked, served>>

\* A file that does not parse is left behind, and the configuration as it was.
LoadEntry(c) ==
    /\ Goto(c, "load", "idle") /\ lock' = "free"
    /\ edit' = [edit EXCEPT ![c] = <<"none", "">>] /\ doc' = [doc EXCEPT ![c] = Empty]
    /\ IF Loads(disk)
       THEN /\ mem' = Load(disk) /\ action' = "none" /\ failed' = FALSE
            /\ adrift' = (adrift /\ ~NoOrphan)
       ELSE UNCHANGED <<memVars, adrift>>
    /\ UNCHANGED <<alive, disk, page, orphan, certVars, sessionVars, inputs, crashes, last,
                   asked, served>>

\* Mutant: the lock stays with the request that was dropped.
AbandonLocked(c) ==
    /\ Input /\ pc[c] \in {"entry", "truncate", "fill"} /\ orphan[c] = NoWrite
    /\ Goto(c, pc[c], "idle")
    /\ edit' = [edit EXCEPT ![c] = <<"none", "">>] /\ doc' = [doc EXCEPT ![c] = Empty]
    /\ IF pc[c] = "entry" THEN UNCHANGED <<orphan, adrift>>
       ELSE /\ orphan' = [orphan EXCEPT ![c] = [pc |-> pc[c], doc |-> doc[c]]]
            /\ adrift' = TRUE
    /\ UNCHANGED <<alive, memVars, lock, disk, page, certVars, sessionVars, crashes, last,
                   asked, served>>

\* The browser leaves, and its request is dropped where it waits: the lock is
\* free, but a write that has begun goes on.
Abandon(c) ==
    /\ Input /\ pc[c] \in {"entry", "truncate", "fill"} /\ orphan[c] = NoWrite
    /\ Goto(c, pc[c], "idle") /\ lock' = "free"
    /\ edit' = [edit EXCEPT ![c] = <<"none", "">>] /\ doc' = [doc EXCEPT ![c] = Empty]
    /\ IF pc[c] = "entry" THEN UNCHANGED <<orphan, adrift>>
       ELSE /\ orphan' = [orphan EXCEPT ![c] = [pc |-> pc[c], doc |-> doc[c]]]
            /\ adrift' = TRUE
    /\ UNCHANGED <<alive, memVars, disk, page, certVars, sessionVars, crashes, last, asked,
                   served>>

OrphanWrites(c) ==
    /\ alive
    /\ \/ /\ orphan[c].pc = "truncate" /\ orphan' = [orphan EXCEPT ![c].pc = "fill"]
          /\ disk' = Empty /\ UNCHANGED last
       \/ /\ orphan[c].pc = "fill" /\ orphan' = [orphan EXCEPT ![c] = NoWrite]
          /\ disk' = orphan[c].doc /\ last' = disk'
    /\ UNCHANGED <<alive, memVars, lock, pc, page, edit, doc, certVars, sessionVars, inputs,
                   crashes, adrift, asked, served>>

---------------------------------------------------------------------------
(* Actions: requested by clients and the button, carried out by the        *)
(* monitor of the session and the action handler, which read the field     *)
(* under one lock and clear it under the next.                             *)

RequestAction(a) ==
    /\ Free /\ Input /\ action' = a
    /\ asked' = [asked EXCEPT ![a] = @ + 1]
    /\ UNCHANGED <<alive, mem, failed, lock, disk, clientVars, certVars, sessionVars, crashes,
                   last, adrift, served>>

\* The user disconnects on the phone's screen, with stop_on_disconnect: the
\* phone's proxy, which reads what passes, asks for a stop.
UserStops ==
    /\ Free /\ Input /\ mode = [p \in Proxies |-> "good"] /\ action' = "stop"
    /\ UNCHANGED <<alive, mem, failed, lock, disk, clientVars, certVars, sessionVars, crashes,
                   historyVars>>

SessionEnds == mode' = [p \in Proxies |-> "none"] /\ monitor' = "poll"

\* Any action ends the session, but only a reconnect is cleared here.
MonitorReads ==
    /\ alive /\ Free /\ mode # [p \in Proxies |-> "none"] /\ monitor = "poll"
    /\ \/ action = "reconnect" /\ monitor' = "clear" /\ UNCHANGED mode
       \/ action \in {"reboot", "stop"} /\ SessionEnds
    /\ UNCHANGED <<alive, memVars, lock, disk, clientVars, certVars, handler, inputs, crashes,
                   historyVars>>

MonitorClears ==
    /\ alive /\ Free /\ monitor = "clear" /\ action' = "none" /\ SessionEnds
    /\ served' = [served EXCEPT !["reconnect"] = @ + 1]
    /\ UNCHANGED <<alive, mem, failed, lock, disk, clientVars, certVars, handler, inputs,
                   crashes, last, adrift, asked>>

HandlerReads ==
    /\ alive /\ Free /\ handler = "poll" /\ action = "reboot" /\ handler' = "clear"
    /\ UNCHANGED <<alive, memVars, lock, disk, clientVars, certVars, mode, monitor, inputs,
                   crashes, historyVars>>

\* After a crash, or a reboot. A file that does not parse ends the program.
Start(t) ==
    /\ alive' = Loads(disk) /\ mem' = (IF Loads(disk) THEN Load(disk) ELSE mem)
    /\ failed' = FALSE /\ action' = "none" /\ lock' = "free"
    /\ pc' = [c \in Clients |-> "idle"] /\ edit' = [c \in Clients |-> <<"none", "">>]
    /\ doc' = [c \in Clients |-> Empty] /\ orphan' = [c \in Clients |-> NoWrite]
    /\ tmp' = t /\ SessionEnds /\ handler' = "poll" /\ adrift' = FALSE
    /\ last' = disk
    /\ UNCHANGED <<disk, page, pem, inputs, asked>>

\* REBOOT_CMD. Programs are stopped wherever they are.
Reboot ==
    /\ alive /\ Free /\ handler = "clear" /\ Start(0)
    /\ served' = [served EXCEPT !["reboot"] = @ + 1]
    /\ UNCHANGED crashes

Crash ==
    /\ alive /\ crashes < MaxCrashes /\ crashes' = crashes + 1 /\ Start(tmp)
    /\ UNCHANGED served

---------------------------------------------------------------------------
(* Certificates: every upload, of either server, goes through one directory. *)

Clean(c) ==
    /\ Input /\ Goto(c, "idle", "unpack") /\ tmp' = 0
    /\ UNCHANGED <<alive, memVars, lock, disk, page, edit, doc, orphan, pem, sessionVars,
                   crashes, historyVars>>

UploadCerts(c) == c \in Browsers /\ Clean(c)
UpdateCerts(c) == c \in Phones /\ Clean(c)

Unpack(c) ==
    /\ Goto(c, "unpack", "cert") /\ tmp' \in Versions
    /\ UNCHANGED <<alive, memVars, lock, disk, page, edit, doc, orphan, pem, sessionVars, inputs,
                   crashes, historyVars>>

\* The copy fails if another upload has emptied the directory meanwhile.
Copy(c, f) ==
    /\ pc[c] = f
    /\ IF tmp = 0 THEN Goto(c, f, "idle") /\ UNCHANGED pem
       ELSE /\ Goto(c, f, IF f = "cert" THEN "key" ELSE "idle")
            /\ pem' = [pem EXCEPT ![f] = tmp]
    /\ UNCHANGED <<alive, memVars, lock, disk, page, edit, doc, orphan, tmp, sessionVars,
                   inputs, crashes, historyVars>>

---------------------------------------------------------------------------
(* A session: each proxy reads the configuration on its own.               *)

ReadMode(p) ==
    /\ alive /\ Free /\ mode[p] = "none"
    /\ mode' = [mode EXCEPT ![p] = IF mem["mitm"] = "on" /\ ~failed THEN "tls" ELSE "pass"]
    /\ UNCHANGED <<alive, memVars, lock, disk, clientVars, certVars, monitor, handler, inputs,
                   crashes, historyVars>>

\* ssl_builder
BuildTls(p) ==
    /\ alive /\ mode[p] = "tls" /\ pem["cert"] = pem["key"]
    /\ mode' = [mode EXCEPT ![p] = IF pem["cert"] \in Usable THEN "good" ELSE "poor"]
    /\ UNCHANGED <<alive, memVars, lock, disk, clientVars, certVars, monitor, handler, inputs,
                   crashes, historyVars>>

\* Mutant: the failure is not noted.
TlsFailsUnnoted(p) ==
    /\ alive /\ Free /\ SessionEnds
    /\ \/ mode[p] = "tls" /\ pem["cert"] # pem["key"]
       \/ mode[p] = "poor" /\ \A q \in Proxies : mode[q] \in {"good", "poor"}
    /\ UNCHANGED <<alive, memVars, lock, disk, clientVars, certVars, handler, inputs,
                   crashes, historyVars>>

\* The pair does not fit, or the other side says in the handshake that it
\* refuses the certificate.
TlsFails(p) ==
    /\ alive /\ Free /\ failed' = TRUE /\ SessionEnds
    /\ \/ mode[p] = "tls" /\ pem["cert"] # pem["key"]
       \/ mode[p] = "poor" /\ \A q \in Proxies : mode[q] \in {"good", "poor"}
    /\ UNCHANGED <<alive, mem, action, lock, disk, clientVars, certVars, handler, inputs,
                   crashes, historyVars>>

Ready == \/ \A p \in Proxies : mode[p] = "pass"
         \/ \A p \in Proxies : mode[p] = "good"

\* One proxy passes on what the other would decrypt: nothing moves, and the
\* monitor ends the session.
Stall ==
    /\ alive /\ \E p, q \in Proxies : mode[p] = "pass" /\ mode[q] \in {"good", "poor"}
    /\ SessionEnds
    /\ UNCHANGED <<alive, memVars, lock, disk, clientVars, certVars, handler, inputs, crashes,
                   historyVars>>

\* Car or phone leave, in the handshake as well: so does a peer that refuses a
\* certificate by closing the connection or by silence. Nothing is noted. A proxy
\* that prepares its side awaits nothing, but for the lock under which it would
\* note a failure.
SessionFails ==
    /\ alive /\ mode # [p \in Proxies |-> "none"] /\ SessionEnds
    /\ Free => \A p \in Proxies : mode[p] # "tls"
    /\ UNCHANGED <<alive, memVars, lock, disk, clientVars, certVars, handler, inputs, crashes,
                   historyVars>>

---------------------------------------------------------------------------
Request(c) ==
    \/ Truncate(c) \/ Write(c) \/ ReadFile(c) \/ TruncateEntry(c) \/ WriteEntry(c)
    \/ SaveFails(c) \/ WriteEntryFails(c) \/ LoadEntry(c) \/ Unpack(c) \/ \E f \in Files : Copy(c, f)

Session == Stall \/ \E p \in Proxies : ReadMode(p) \/ BuildTls(p) \/ TlsFails(p)

Monitor == MonitorReads \/ MonitorClears
Handler == HandlerReads \/ Reboot

Next ==
    \/ \E c \in Clients :
          \/ ReadPage(c) \/ SetConfig(c) \/ UpdateConfig(c) \/ UpdateEntry(c)
          \/ UploadCerts(c) \/ UpdateCerts(c)
          \/ Request(c) \/ Abandon(c) \/ OrphanWrites(c)
    \/ UserStops \/ \E a \in Cleared : RequestAction(a)
    \/ Monitor \/ Handler \/ Session \/ SessionFails \/ Crash

Spec == Init /\ [][Next]_vars

\* The tasks of the program run when they can; clients and crashes need not come.
FairSpec ==
    /\ Spec /\ WF_vars(Monitor) /\ WF_vars(Handler) /\ WF_vars(Session)
    /\ \A c \in Clients : WF_vars(Request(c)) /\ WF_vars(OrphanWrites(c))

---------------------------------------------------------------------------
(* Properties.                                                             *)

\* Every variable stays in its domain: no field of the configuration in memory
\* is without a value, and only a request that is at work holds the lock.
TypeOK ==
    /\ alive \in BOOLEAN /\ failed \in BOOLEAN /\ action \in Actions \cup {"none"}
    /\ mem \in [Options -> {"on", "off", ""}] /\ page \in [Clients -> [Options -> {"on", "off", ""}]]
    /\ disk \in [Options -> Texts] /\ last \in [Options -> Texts]
    /\ doc \in [Clients -> [Options -> Texts]]
    /\ pc \in [Clients -> Holding \cup {"idle", "unpack", "cert", "key"}]
    /\ lock \in Clients \cup {"free"} /\ \A c \in Clients : lock = c <=> pc[c] \in Holding
    /\ edit \in [Clients -> (Options \cup {"none"}) \X Texts]
    /\ orphan \in [Clients -> [pc : {"none", "truncate", "fill"}, doc : [Options -> Texts]]]
    /\ adrift \in BOOLEAN
    /\ asked \in [Cleared -> Nat] /\ served \in [Cleared -> Nat]
    /\ monitor \in {"poll", "clear"} /\ handler \in {"poll", "clear"}

\* What the program goes by is what a restart would load: memory and file agree
\* whenever nobody holds the lock, after any saves, edits and crashes
\* (set_config, update_config_entry). Exempt are an optional setting that was
\* cleared, which the file keeps, a file that does not parse, and the time from
\* a write that failed, or from a browser's leaving in the middle of one, to the
\* next write that is completed: AppConfig::save ignores its result.
FileAgrees ==
    alive /\ Free /\ ~adrift /\ Loads(disk) =>
        \A o \in Options : mem[o] = Load(disk)[o] \/ (o \in Optional /\ mem[o] = "")

\* Editing one entry leaves what others have saved: of the text the last write
\* left in the file, nothing but that entry changes (update_config_entry). Exempt
\* is the time after a failed or forsaken write, as in FileAgrees.
EntryKeepsOthers ==
    [][\A c \in Browsers : pc[c] = "fill" /\ pc'[c] = "load" /\ ~adrift =>
          \A o \in Options \ {edit[c][1]} : disk'[o] = last[o]]_vars

\* A reconnect is cleared by a session's end, and a reboot made, at most once for
\* each request: no page that was read before, no reload of the file and no
\* restart brings a served one back. Exempt is a stop, which nobody clears: it
\* ends every session until something overwrites it.
ServedOnce == \A a \in Cleared : served[a] <= asked[a]

\* However the two proxies' reads fall between saves, and whatever pair of
\* certificates is installed, sessions come up in the end: with the failure noted,
\* the next one passes everything through. Exempt are a stop that is pending, and
\* peers that leave handshake after handshake, for then nothing is noted.
PeersLeave == []<><<SessionFails /\ ~Ready>>_vars
SessionsComeUp == []<>(Ready \/ ~alive \/ action = "stop") \/ PeersLeave
=============================================================================
