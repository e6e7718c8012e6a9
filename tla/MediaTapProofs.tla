--------------------------- MODULE MediaTapProofs ---------------------------
(***************************************************************************)
(* What MediaTap guarantees for any number of clients, pictures, parts and *)
(* streams, and any capacity of the channel.                               *)
(***************************************************************************)
EXTENDS MediaTap, SequenceTheorems, TLAPS

---------------------------------------------------------------------------
(* The inductive invariant.                                                *)

ItemType == [picture : Nat, key : BOOLEAN, config : Nat]
Types ==
    /\ kind \in {"video", "audio"} /\ key \in BOOLEAN /\ log \in Seq(ItemType)
    /\ {stream, config, picture, left} \subseteq Nat
    /\ DOMAIN pc = Clients /\ DOMAIN pos = Clients /\ DOMAIN synced = Clients
    /\ DOMAIN pending = Clients /\ DOMAIN au = Clients /\ DOMAIN prefix = Clients
    /\ DOMAIN opens = Clients /\ DOMAIN out = Clients

\* The cached configuration is that of the stream, once the phone streams.
ConfigInv ==
    /\ config <= stream
    /\ \A i \in DOMAIN log : log[i].config <= stream
    /\ kind = "video" => \A i \in DOMAIN log : log[i].config <= config
    /\ kind = "video" /\ (left > 0 \/ Configured) => config = stream

\* The pictures of the log come in order ...
OrderInv ==
    /\ left > 0 => picture > 0
    /\ \A i \in DOMAIN log : log[i].picture <= picture
    /\ \A i, j \in DOMAIN log : i < j /\ log[j].picture > 0 => log[i].picture <= log[j].picture

\* ... and one that is no key picture comes right after the one before.
Base(n, bound) == \E i \in DOMAIN log : i < bound /\ log[i].picture > 0 /\ log[i].picture + 1 >= n
StepInv ==
    /\ \A j \in DOMAIN log : log[j].picture > 0 /\ ~log[j].key => Base(log[j].picture, j)
    /\ left > 0 /\ ~key => Base(picture, Len(log) + 1)
    /\ left = 0 /\ (\E i \in DOMAIN log : log[i].picture > 0 /\ log[i].config = stream)
        => \E i \in DOMAIN log : log[i].picture > 0 /\ log[i].picture = picture

AudioInv == kind = "audio" => (left > 0 => key) /\ \A i \in DOMAIN log : log[i].key

LogInv == ConfigInv /\ OrderInv /\ StepInv /\ AudioInv

\* Items of one picture.
Piece(s) ==
    /\ s # {} /\ s \subseteq DOMAIN log
    /\ \A i \in s : log[i].picture > 0 /\ \A j \in s : log[i].picture = log[j].picture

Follows(s, t) == IsKey(s) \/ Picture(s) = Picture(t) + 1
AllBefore(s, bound) == \A i \in DOMAIN log : i < bound /\ log[i].picture = Picture(s) => i \in s

\* What a client holds are items it has read, with nothing but configurations since.
PlaceInv(c) ==
    /\ pos[c] \in 1..Len(log) + 1
    /\ au[c] \subseteq DOMAIN log /\ out[c].items \subseteq DOMAIN log
    /\ prefix[c] \in Nat /\ prefix[c] <= config
    /\ pc[c] \in {"off", "info"} => ~synced[c] /\ pending[c] = {}
    /\ pc[c] \in {"psi", "pes"} => au[c] # {}
    /\ kind = "video" /\ pending[c] # {} =>
        /\ Piece(pending[c])
        /\ \E m \in pending[c] : /\ \A i \in pending[c] : i <= m
                                 /\ m < pos[c]
                                 /\ \A k \in DOMAIN log : m < k /\ k < pos[c] => log[k].picture = 0

\* Once it is shown pictures, the next one follows the last and is not cut.
SyncInv(c) ==
    kind = "video" =>
        /\ pc[c] = "recv" /\ synced[c] =>
            /\ pending[c] # {} /\ Follows(pending[c], out[c].items) /\ AllBefore(pending[c], pos[c])
        /\ pc[c] \in {"psi", "pes"} =>
            /\ synced[c] /\ pending[c] # {} /\ AllBefore(pending[c], pos[c])
            /\ Follows(pending[c], au[c])
            /\ Follows(au[c], out[c].items)

\* What it is about to write is complete, unless it begins with it, and a key picture
\* has a configuration that is not older.
ShowInv(c) ==
    /\ kind = "video" /\ pc[c] \in {"psi", "pes"} =>
        /\ Picture(au[c]) > 0
        /\ opens[c] \/ AllBefore(au[c], Len(log) + 1)
        /\ \E i \in DOMAIN log : log[i].picture > Picture(au[c])
    /\ kind = "video" /\ pc[c] = "pes" /\ IsKey(au[c]) =>
        \A i \in au[c] : log[i].config <= prefix[c]

ClientInv == \A c \in Clients : PlaceInv(c) /\ SyncInv(c) /\ ShowInv(c)

IInv == Types /\ LogInv /\ ClientInv

---------------------------------------------------------------------------
(* What the phone broadcasts.                                              *)

USE KindsAssumption, CapacityAssumption, BoundsAssumption

LEMMA EmptyType == \A S : <<>> \in Seq(S)
  BY EmptySeq

\* A message more leaves those before it where they were.
LEMMA Appended ==
  ASSUME log \in Seq(ItemType), NEW i \in ItemType, Send(i)
  PROVE /\ log' \in Seq(ItemType) /\ Len(log') = Len(log) + 1
        /\ DOMAIN log' = DOMAIN log \cup {Len(log) + 1} /\ DOMAIN log = 1..Len(log)
        /\ Len(log) \in Nat
        /\ \A n \in DOMAIN log : log'[n] = log[n]
        /\ log'[Len(log) + 1] = i
  BY DEF Send

\* The log and what it holds of each item.
LEMMA LogFacts ==
  ASSUME Types
  PROVE /\ Len(log) \in Nat /\ DOMAIN log = 1..Len(log)
        /\ \A i \in DOMAIN log : /\ log[i] \in ItemType /\ log[i].picture \in Nat
                                 /\ log[i].config \in Nat /\ log[i].key \in BOOLEAN
  <1>1. log \in Seq(ItemType)
    BY DEF Types
  <1>2. Len(log) \in Nat /\ DOMAIN log = 1..Len(log) /\ \A i \in DOMAIN log : log[i] \in ItemType
    BY <1>1
  <1>. QED
    BY <1>2 DEF ItemType

LEMMA InitInv == Init => IInv
  <1>. SUFFICES ASSUME Init PROVE IInv
    OBVIOUS
  <1>. USE EmptyType DEF Init
  <1>0. kind \in {"video", "audio"} /\ DOMAIN log = {} /\ Len(log) = 0
    BY EmptySeq
  <1>1. Types
    <2>1. log \in Seq(ItemType) /\ {stream, config, picture, left} \subseteq Nat
      BY DEF None
    <2>. QED
      BY <1>0, <2>1 DEF Types
  <1>2. LogInv
    BY <1>0 DEF LogInv, ConfigInv, OrderInv, StepInv, AudioInv, Configured, None
  <1>3. ASSUME NEW c \in Clients PROVE PlaceInv(c) /\ SyncInv(c) /\ ShowInv(c)
    <2>1. /\ pc[c] = "off" /\ pos[c] = 1 /\ synced[c] = FALSE /\ pending[c] = {} /\ au[c] = {}
          /\ prefix[c] = 0 /\ config = 0 /\ out[c].items = {}
      BY DEF Nothing, None
    <2>. QED
      BY <1>0, <2>1 DEF PlaceInv, SyncInv, ShowInv
  <1>. QED
    BY <1>1, <1>2, <1>3 DEF IInv, ClientInv

\* The phone's steps.
LEMMA PhoneLogInv == Types /\ LogInv /\ Phone => Types' /\ LogInv'
  <1>. SUFFICES ASSUME Types, LogInv, Phone PROVE Types' /\ LogInv'
    OBVIOUS
  <1>. USE DEF phoneVars, sinkVars, clientVars
  <1>0. /\ Len(log) \in Nat /\ DOMAIN log = 1..Len(log)
        /\ \A i \in DOMAIN log : /\ log[i] \in ItemType /\ log[i].picture \in Nat
                                 /\ log[i].config \in Nat /\ log[i].key \in BOOLEAN
    BY LogFacts
  <1>1. CASE BeginStream
    <2>1. Types'
      BY <1>1, <1>0 DEF BeginStream, Types
    <2>2. ConfigInv'
      <3>1. \A i \in DOMAIN log : log[i] # Item(0, FALSE)'
        BY <1>1, <1>0 DEF BeginStream, LogInv, ConfigInv, Item, Types
      <3>2. ~Configured' /\ log' = log /\ left' = 0 /\ stream' = stream + 1
            /\ kind' = kind /\ config' = config /\ stream \in Nat
        BY <1>1, <3>1 DEF BeginStream, Configured, Types
      <3>3. \A i \in DOMAIN log : log[i].config <= stream'
        BY <1>0, <3>2 DEF LogInv, ConfigInv
      <3>. QED
        BY <3>2, <3>3 DEF LogInv, ConfigInv, Types
    <2>3. OrderInv'
      BY <1>1, <1>0 DEF BeginStream, LogInv, OrderInv, Types
    <2>4. StepInv'
      <3>1. \A i \in DOMAIN log : log[i].config # stream'
        BY <1>1, <1>0 DEF BeginStream, LogInv, ConfigInv, Types
      <3>. QED
        BY <1>1, <1>0, <3>1 DEF BeginStream, LogInv, StepInv, Base, Types
    <2>5. AudioInv'
      BY <1>1, <1>0 DEF BeginStream, LogInv, AudioInv, Types
    <2>. QED
      BY <2>1, <2>2, <2>3, <2>4, <2>5 DEF LogInv
  <1>2. CASE CodecConfig
    <2>0. PICK item \in ItemType : /\ Send(item) /\ item.picture = 0
                                   /\ item.config = stream /\ ~item.key
      <3>. DEFINE i == [picture |-> 0, key |-> FALSE, config |-> stream]
      <3>1. Send(i)
        BY <1>2 DEF CodecConfig, Item
      <3>2. i \in ItemType /\ i.picture = 0 /\ i.config = stream /\ ~i.key
        BY DEF ItemType, Types
      <3>. HIDE DEF i
      <3>. QED
        BY <3>1, <3>2
    <2>1. /\ log' \in Seq(ItemType) /\ Len(log') = Len(log) + 1
          /\ DOMAIN log' = DOMAIN log \cup {Len(log) + 1}
          /\ \A n \in DOMAIN log : log'[n] = log[n]
          /\ log'[Len(log) + 1] = item
      BY <1>2, <2>0, Appended DEF CodecConfig, Types
    <2>2. Types'
      BY <1>2, <2>1 DEF CodecConfig, Types
    <2>a. /\ kind' = kind /\ stream' = stream /\ config' = stream /\ picture' = picture
          /\ left' = left /\ key' = key /\ stream \in Nat /\ picture \in Nat
      BY <1>2 DEF CodecConfig, Types
    <2>b. \A n \in DOMAIN log' : \/ n \in DOMAIN log /\ log'[n] = log[n]
                                 \/ n = Len(log) + 1 /\ log'[n] = item
      BY <2>1
    <2>3. ConfigInv'
      <3>1. \A i \in DOMAIN log' : log'[i].config <= stream
        BY <1>0, <2>0, <2>b, <2>a DEF LogInv, ConfigInv
      <3>. QED
        BY <2>a, <3>1 DEF ConfigInv
    <2>4. OrderInv'
      <3>1. \A i \in DOMAIN log' : log'[i].picture <= picture
        BY <1>0, <2>0, <2>b, <2>a DEF LogInv, OrderInv
      <3>2. \A i, j \in DOMAIN log' : i < j /\ log'[j].picture > 0 => log'[i].picture <= log'[j].picture
        BY <1>0, <2>0, <2>b, <2>a DEF LogInv, OrderInv
      <3>. QED
        BY <2>a, <3>1, <3>2 DEF LogInv, OrderInv
    <2>5. StepInv'
      <3>1. \A n \in Nat : \A b \in 1..Len(log) + 1 : Base(n, b) => Base(n, b)'
        BY <1>0, <2>1 DEF Base
      <3>2. \A n \in Nat : Base(n, Len(log) + 1) => Base(n, Len(log) + 1)'
        BY <1>0, <2>1 DEF Base
      <3>3. \A n \in Nat : Base(n, Len(log) + 1) => Base(n, Len(log) + 2)'
        BY <1>0, <2>1 DEF Base
      <3>4. \A j \in DOMAIN log' : (log[j].picture > 0 /\ ~log[j].key)' => Base(log[j].picture, j)'
        <4>. SUFFICES ASSUME NEW j \in DOMAIN log', log'[j].picture > 0, ~log'[j].key
                     PROVE Base(log[j].picture, j)'
          OBVIOUS
        <4>1. j \in DOMAIN log /\ log'[j] = log[j]
          BY <2>0, <2>b
        <4>2. Base(log[j].picture, j)
          BY <4>1 DEF LogInv, StepInv
        <4>. QED
          BY <1>0, <2>1, <4>1, <4>2 DEF Base
      <3>5. (left > 0 /\ ~key)' => Base(picture, Len(log) + 1)'
        BY <1>2, <1>0, <2>1, <3>3 DEF CodecConfig, LogInv, StepInv, Base, Types
      <3>6. (left = 0 /\ (\E i \in DOMAIN log : log[i].picture > 0 /\ log[i].config = stream))'
            => (\E i \in DOMAIN log : log[i].picture > 0 /\ log[i].picture = picture)'
        <4>. SUFFICES ASSUME left = 0, NEW i \in DOMAIN log', log'[i].picture > 0, log'[i].config = stream
                     PROVE \E n \in DOMAIN log' : log'[n].picture > 0 /\ log'[n].picture = picture
          BY <2>a
        <4>1. i \in DOMAIN log /\ log'[i] = log[i]
          BY <2>0, <2>b
        <4>2. PICK n \in DOMAIN log : log[n].picture > 0 /\ log[n].picture = picture
          BY <4>1 DEF LogInv, StepInv
        <4>. QED
          BY <4>2, <2>1
      <3>. QED
        BY <3>4, <3>5, <3>6 DEF StepInv
    <2>6. AudioInv'
      BY <1>2, <1>0, <2>0, <2>1 DEF CodecConfig, LogInv, AudioInv, Types
    <2>. QED
      BY <2>2, <2>3, <2>4, <2>5, <2>6 DEF LogInv
  <1>3. CASE BeginPicture
    <2>0. picture' = picture + 1 /\ picture' \in Nat /\ left' \in Nat /\ left' > 0
          /\ log' = log /\ stream' = stream /\ config' = config /\ kind' = kind
          /\ key' \in BOOLEAN
      <3>1. left' \in 1..MaxParts
        BY <1>3 DEF BeginPicture
      <3>2. key' \in BOOLEAN
        BY <1>3 DEF BeginPicture
      <3>3. left' \in Nat /\ left' > 0
        BY <3>1
      <3>. QED
        BY <1>3, <3>2, <3>3 DEF BeginPicture, Types
    <2>1. Types'
      BY <1>3, <2>0 DEF BeginPicture, Types
    <2>2. ConfigInv'
      BY <1>3, <2>0 DEF BeginPicture, LogInv, ConfigInv, Configured, Item
    <2>3. OrderInv'
      BY <1>0, <2>0 DEF LogInv, OrderInv, Types
    <2>4. StepInv'
      <3>1. ASSUME ~key' PROVE \E i \in DOMAIN log : log[i].picture > 0 /\ log[i].config = stream
        BY <1>3, <3>1 DEF BeginPicture
      <3>2. ASSUME ~key' PROVE Base(picture', Len(log) + 1)
        <4>1. PICK i \in DOMAIN log : log[i].picture > 0 /\ log[i].picture = picture
          BY <1>3, <3>1, <3>2 DEF BeginPicture, LogInv, StepInv
        <4>. QED
          BY <4>1, <1>0, <2>0 DEF Base
      <3>. QED
        BY <3>2, <2>0, <1>0 DEF LogInv, StepInv, Base
    <2>5. AudioInv'
      BY <1>3, <2>0 DEF BeginPicture, LogInv, AudioInv
    <2>. QED
      BY <2>1, <2>2, <2>3, <2>4, <2>5 DEF LogInv
  <1>4. ASSUME left > 0, left' = left - 1, Send(Item(picture, key)),
               UNCHANGED <<kind, stream, picture, key, config, clientVars>>
        PROVE Types' /\ LogInv'
    <2>0. /\ Item(picture, key) \in ItemType /\ Item(picture, key).picture = picture
          /\ Item(picture, key).config = stream /\ Item(picture, key).key = key
          /\ picture > 0 /\ picture \in Nat /\ left' \in Nat
      BY <1>4 DEF Item, ItemType, Types, LogInv, OrderInv
    <2>1. /\ log' \in Seq(ItemType) /\ Len(log') = Len(log) + 1
          /\ DOMAIN log' = DOMAIN log \cup {Len(log) + 1}
          /\ \A n \in DOMAIN log : log'[n] = log[n]
          /\ log'[Len(log) + 1] = Item(picture, key)
      BY <1>4, <2>0, Appended DEF Types
    <2>2. Types'
      BY <1>4, <2>0, <2>1 DEF Types
    <2>3. ConfigInv'
      <3>1. kind = "video" => config = stream
        BY <1>4 DEF LogInv, ConfigInv
      <3>2. kind = "video" /\ (left > 0 \/ Configured)' => config = stream
        BY <3>1
      <3>. QED
        BY <1>4, <1>0, <2>0, <2>1, <3>1 DEF LogInv, ConfigInv, Types
    <2>4. OrderInv'
      BY <1>4, <1>0, <2>0, <2>1 DEF LogInv, OrderInv, Types
    <2>5. StepInv'
      <3>1. \A n \in Nat : \A b \in 1..Len(log) + 1 : Base(n, b) => Base(n, b)'
        BY <1>0, <2>1 DEF Base
      <3>3. \A n \in Nat : Base(n, Len(log) + 1) => (\E i \in DOMAIN log' :
                i < Len(log') + 1 /\ log'[i].picture > 0 /\ log'[i].picture + 1 >= n)
        BY <1>0, <2>1 DEF Base
      <3>4. \A j \in DOMAIN log' : (log[j].picture > 0 /\ ~log[j].key)' => Base(log[j].picture, j)'
        <4>1. \A j \in DOMAIN log : (log[j].picture > 0 /\ ~log[j].key)' => Base(log[j].picture, j)'
          BY <1>0, <2>1, <3>1 DEF LogInv, StepInv
        <4>2. (picture > 0 /\ ~key) => \E i \in DOMAIN log' :
                  i < Len(log) + 1 /\ log'[i].picture > 0 /\ log'[i].picture + 1 >= picture
          BY <1>4, <1>0, <2>0, <2>1 DEF LogInv, StepInv, Base
        <4>3. ASSUME NEW j \in DOMAIN log', log'[j].picture > 0, ~log'[j].key
              PROVE Base(log[j].picture, j)'
          <5>1. CASE j \in DOMAIN log
            BY <4>1, <4>3, <5>1
          <5>2. CASE j = Len(log) + 1
            <6>1. log'[j].picture = picture /\ picture > 0 /\ ~key
              BY <4>3, <5>2, <2>0, <2>1
            <6>2. \E i \in DOMAIN log' :
                     i < Len(log) + 1 /\ log'[i].picture > 0 /\ log'[i].picture + 1 >= picture
              BY <4>2, <6>1
            <6>. QED
              BY <6>1, <6>2, <5>2, <1>4 DEF Base
          <5>. QED
            BY <5>1, <5>2, <2>1
        <4>. QED
          BY <4>3
      <3>5. (left > 0 /\ ~key)' => Base(picture, Len(log) + 1)'
        BY <1>4, <1>0, <2>0, <2>1, <3>3 DEF LogInv, StepInv, Base
      <3>6. (left = 0 /\ (\E i \in DOMAIN log : log[i].picture > 0 /\ log[i].config = stream))'
            => (\E i \in DOMAIN log : log[i].picture > 0 /\ log[i].picture = picture)'
        BY <1>4, <2>0, <2>1
      <3>. QED
        BY <3>4, <3>5, <3>6 DEF StepInv
    <2>6. AudioInv'
      BY <1>4, <1>0, <2>0, <2>1 DEF LogInv, AudioInv, Types
    <2>. QED
      BY <2>2, <2>3, <2>4, <2>5, <2>6 DEF LogInv
  <1>5. CASE WholeMessage
    BY <1>4, <1>5 DEF WholeMessage
  <1>6. CASE FirstFragment
    <2>1. Types' /\ ConfigInv' /\ OrderInv' /\ StepInv' /\ AudioInv'
      BY <1>6 DEF FirstFragment, Types, LogInv, ConfigInv, Configured, Item, OrderInv, StepInv, Base, AudioInv
    <2>. QED
      BY <2>1 DEF LogInv
  <1>7. CASE LastFragment
    BY <1>4, <1>7 DEF LastFragment
  <1>. QED
    BY <1>1, <1>2, <1>3, <1>5, <1>6, <1>7 DEF Phone

---------------------------------------------------------------------------
(* What the clients hold, while the log grows.                             *)

\* A piece has the picture of each of its items.
LEMMA PictureOf == ASSUME NEW s, Piece(s), NEW i \in s PROVE Picture(s) = log[i].picture
  <1>1. (CHOOSE n \in s : TRUE) \in s
    OBVIOUS
  <1>. QED
    BY <1>1 DEF Piece, Picture

LEMMA PictureNat == ASSUME Types, NEW s, s \subseteq DOMAIN log PROVE Picture(s) \in Nat
  <1>1. CASE s = {}
    BY <1>1 DEF Picture
  <1>2. CASE s # {}
    <2>1. (CHOOSE n \in s : TRUE) \in s
      BY <1>2
    <2>. QED
      BY <1>2, <2>1, LogFacts DEF Picture
  <1>. QED
    BY <1>1, <1>2

\* No item is lost or changed; a new one is a configuration or of the last picture.
Grows ==
    /\ config \in Nat /\ config' \in Nat /\ config <= config'
    /\ Len(log') \in Nat /\ Len(log) <= Len(log') /\ DOMAIN log' = 1..Len(log')
    /\ \A n \in DOMAIN log : n \in DOMAIN log' /\ log'[n] = log[n]
    /\ \A n \in DOMAIN log' \ DOMAIN log :
          /\ n > Len(log) /\ log'[n].picture \in Nat
          /\ log'[n].picture = 0 \/ \A i \in DOMAIN log : log[i].picture <= log'[n].picture

LEMMA PhoneGrows == ASSUME Types, LogInv, Phone PROVE Grows /\ UNCHANGED <<kind, clientVars>>
  <1>. USE DEF phoneVars, sinkVars
  <1>0. /\ Len(log) \in Nat /\ DOMAIN log = 1..Len(log)
        /\ \A i \in DOMAIN log : log[i].picture \in Nat
    BY LogFacts
  <1>c. config \in Nat /\ config' \in Nat /\ config <= config'
    <2>1. stream \in Nat /\ config \in Nat /\ config <= stream
      BY DEF Types, LogInv, ConfigInv
    <2>2. config' = config \/ config' = stream
      BY DEF Phone, BeginStream, CodecConfig, BeginPicture, WholeMessage, FirstFragment, LastFragment
    <2>. QED
      BY <2>1, <2>2
  <1>1. CASE UNCHANGED <<kind, log, clientVars>>
    BY <1>0, <1>1, <1>c DEF Grows
  <1>2. ASSUME NEW i \in ItemType, Send(i), UNCHANGED <<kind, clientVars>>,
               i.picture = 0 \/ i.picture = picture
        PROVE Grows /\ UNCHANGED <<kind, clientVars>>
    <2>1. /\ Len(log') = Len(log) + 1 /\ DOMAIN log' = DOMAIN log \cup {Len(log) + 1}
          /\ \A n \in DOMAIN log : log'[n] = log[n]
          /\ log'[Len(log) + 1] = i
      BY <1>2, Appended DEF Types
    <2>2. i.picture \in Nat
      BY DEF ItemType
    <2>3. i.picture = 0 \/ \A n \in DOMAIN log : log[n].picture <= i.picture
      BY <1>2 DEF LogInv, OrderInv
    <2>. QED
      BY <1>0, <1>2, <1>c, <2>1, <2>2, <2>3 DEF Grows
  <1>3. CASE BeginStream \/ BeginPicture \/ FirstFragment
    <2>1. UNCHANGED <<kind, log, clientVars>>
      BY <1>3 DEF BeginStream, BeginPicture, FirstFragment
    <2>. QED
      BY <1>1, <2>1
  <1>4. CASE CodecConfig
    <2>. DEFINE i == [picture |-> 0, key |-> FALSE, config |-> stream]
    <2>1. Send(i) /\ UNCHANGED <<kind, clientVars>>
      BY <1>4 DEF CodecConfig, Item
    <2>2. i \in ItemType /\ i.picture = 0
      BY DEF ItemType, Types
    <2>. HIDE DEF i
    <2>. QED
      BY <1>2, <2>1, <2>2
  <1>5. CASE WholeMessage \/ LastFragment
    <2>. DEFINE i == [picture |-> picture, key |-> key, config |-> stream]
    <2>1. Send(i) /\ UNCHANGED <<kind, clientVars>>
      BY <1>5 DEF WholeMessage, LastFragment, Item
    <2>2. i \in ItemType /\ i.picture = picture
      BY DEF ItemType, Types
    <2>. HIDE DEF i
    <2>. QED
      BY <1>2, <2>1, <2>2
  <1>. QED
    BY <1>3, <1>4, <1>5 DEF Phone

\* A set of items broadcast before is the same set afterwards.
LEMMA StaysPicture ==
  ASSUME Grows, NEW s, s \subseteq DOMAIN log
  PROVE /\ (IF s = {} THEN 0 ELSE log'[CHOOSE i \in s : TRUE].picture) = Picture(s)
        /\ (\E i \in s : log'[i].key) <=> IsKey(s)
  <1>1. CASE s = {}
    BY <1>1 DEF Picture, IsKey
  <1>2. CASE s # {}
    <2>1. (CHOOSE n \in s : TRUE) \in s
      BY <1>2
    <2>2. \A n \in s : log'[n] = log[n]
      BY DEF Grows
    <2>. QED
      BY <1>2, <2>1, <2>2 DEF Picture, IsKey
  <1>. QED
    BY <1>1, <1>2

LEMMA PhoneClientInv ==
  ASSUME Types, ClientInv, Grows, UNCHANGED <<kind, clientVars>>
  PROVE ClientInv'
  <1>. SUFFICES ASSUME NEW c \in Clients PROVE PlaceInv(c)' /\ SyncInv(c)' /\ ShowInv(c)'
    BY DEF ClientInv
  <1>. USE DEF clientVars
  <1>0. PlaceInv(c) /\ SyncInv(c) /\ ShowInv(c)
    BY DEF ClientInv
  <1>1. /\ Len(log) \in Nat /\ DOMAIN log = 1..Len(log)
        /\ \A i \in DOMAIN log : log[i].picture \in Nat
    BY LogFacts
  <1>2. /\ au[c] \subseteq DOMAIN log /\ out[c].items \subseteq DOMAIN log
        /\ kind = "video" => pending[c] \subseteq DOMAIN log
    BY <1>0 DEF PlaceInv, Piece
  <1>3. /\ Picture(au[c])' = Picture(au[c]) /\ (IsKey(au[c])' <=> IsKey(au[c]))
        /\ Picture(out[c].items)' = Picture(out[c].items)
        /\ IsKey(out[c].items)' <=> IsKey(out[c].items)
    <2>1. /\ Picture(au[c])' = (IF au[c] = {} THEN 0 ELSE log'[CHOOSE i \in au[c] : TRUE].picture)
          /\ Picture(out[c].items)' =
                (IF out[c].items = {} THEN 0 ELSE log'[CHOOSE i \in out[c].items : TRUE].picture)
      BY DEF Picture
    <2>2. /\ IsKey(au[c])' <=> \E i \in au[c] : log'[i].key
          /\ IsKey(out[c].items)' <=> \E i \in out[c].items : log'[i].key
      BY DEF IsKey
    <2>. QED
      BY <1>2, <2>1, <2>2, StaysPicture
  <1>4. ASSUME kind = "video"
        PROVE Picture(pending[c])' = Picture(pending[c]) /\ (IsKey(pending[c])' <=> IsKey(pending[c]))
    <2>1. Picture(pending[c])' =
             (IF pending[c] = {} THEN 0 ELSE log'[CHOOSE i \in pending[c] : TRUE].picture)
      BY DEF Picture
    <2>2. IsKey(pending[c])' <=> \E i \in pending[c] : log'[i].key
      BY DEF IsKey
    <2>. QED
      BY <1>2, <1>4, <2>1, <2>2, StaysPicture
  <1>5. Picture(au[c]) \in Nat /\ Picture(out[c].items) \in Nat
    BY <1>2, PictureNat
  <1>6. PlaceInv(c)'
    <2>1. ASSUME kind = "video", pending[c] # {}
          PROVE Piece(pending[c])' /\ \E m \in pending[c] : /\ \A i \in pending[c] : i <= m
                                 /\ m < pos[c]
                                 /\ \A k \in DOMAIN log' : m < k /\ k < pos[c] => log'[k].picture = 0
      <3>1. Piece(pending[c])'
        BY <1>0, <1>1, <2>1 DEF PlaceInv, Piece, Grows
      <3>2. PICK m \in pending[c] : /\ \A i \in pending[c] : i <= m
                                    /\ m < pos[c]
                                    /\ \A k \in DOMAIN log : m < k /\ k < pos[c] => log[k].picture = 0
        BY <1>0, <2>1 DEF PlaceInv
      <3>3. \A k \in DOMAIN log' : k < pos[c] => k \in DOMAIN log /\ log'[k] = log[k]
        BY <1>0, <1>1 DEF PlaceInv, Grows
      <3>. QED
        BY <3>1, <3>2, <3>3
    <2>2. /\ pos[c] \in 1..Len(log') + 1 /\ au[c] \subseteq DOMAIN log' /\ out[c].items \subseteq DOMAIN log'
          /\ prefix[c] <= config'
      BY <1>0, <1>1 DEF PlaceInv, Grows
    <2>. QED
      BY <1>0, <2>1, <2>2 DEF PlaceInv
  <1>7. SyncInv(c)'
    <2>1. ASSUME kind = "video", AllBefore(pending[c], pos[c]) PROVE AllBefore(pending[c], pos[c])'
      <3>1. \A k \in DOMAIN log' : k < pos[c] => k \in DOMAIN log /\ log'[k] = log[k]
        BY <1>0, <1>1 DEF PlaceInv, Grows
      <3>. QED
        BY <1>4, <2>1, <3>1 DEF AllBefore
    <2>2. ASSUME kind = "video"
          PROVE /\ Follows(pending[c], out[c].items) => Follows(pending[c], out[c].items)'
                /\ Follows(pending[c], au[c]) => Follows(pending[c], au[c])'
                /\ Follows(au[c], out[c].items) => Follows(au[c], out[c].items)'
      BY <1>3, <1>4, <2>2 DEF Follows
    <2>. QED
      BY <1>0, <2>1, <2>2 DEF SyncInv
  <1>8. ShowInv(c)'
    <2>1. ASSUME kind = "video", pc[c] \in {"psi", "pes"}
          PROVE (opens[c] \/ AllBefore(au[c], Len(log) + 1))' /\ \E i \in DOMAIN log' : log'[i].picture > Picture(au[c])
      <3>1. PICK i \in DOMAIN log : log[i].picture > Picture(au[c])
        BY <1>0, <2>1 DEF ShowInv
      <3>2. ASSUME ~opens[c] PROVE AllBefore(au[c], Len(log) + 1)'
        <4>1. Picture(au[c]) > 0
          BY <1>0, <2>1 DEF ShowInv
        <4>2. \A n \in DOMAIN log' : log'[n].picture = Picture(au[c]) => n \in DOMAIN log
          <5>1. \A n \in DOMAIN log' \ DOMAIN log : log'[n].picture = 0 \/ log'[n].picture > Picture(au[c])
            BY <1>1, <1>5, <3>1 DEF Grows
          <5>. QED
            BY <1>5, <4>1, <5>1
        <4>3. \A n \in DOMAIN log : log[n].picture = Picture(au[c]) => n \in au[c]
          BY <1>0, <1>1, <2>1, <3>2 DEF ShowInv, AllBefore
        <4>4. \A n \in DOMAIN log : log'[n] = log[n]
          BY DEF Grows
        <4>. QED
          BY <1>3, <4>2, <4>3, <4>4 DEF AllBefore
      <3>3. \E n \in DOMAIN log' : log'[n].picture > Picture(au[c])
        BY <3>1 DEF Grows
      <3>. QED
        BY <1>3, <3>2, <3>3
    <2>2. ASSUME kind = "video", pc[c] = "pes", IsKey(au[c])
          PROVE \A i \in au[c] : log'[i].config <= prefix[c]
      BY <1>0, <1>2, <2>2 DEF ShowInv, Grows
    <2>. QED
      BY <1>0, <1>3, <2>1, <2>2 DEF ShowInv
  <1>. QED
    BY <1>6, <1>7, <1>8

---------------------------------------------------------------------------
(* A client's steps.                                                       *)

\* Nothing of client d changes.
Same(d) ==
    /\ pc'[d] = pc[d] /\ pos'[d] = pos[d] /\ synced'[d] = synced[d] /\ pending'[d] = pending[d]
    /\ au'[d] = au[d] /\ prefix'[d] = prefix[d]
    /\ opens'[d] = opens[d] /\ out'[d] = out[d]

LEMMA SameInv ==
  ASSUME NEW d \in Clients, Same(d), UNCHANGED <<kind, log, config>>, PlaceInv(d), SyncInv(d), ShowInv(d)
  PROVE PlaceInv(d)' /\ SyncInv(d)' /\ ShowInv(d)'
  <1>. USE DEF Same
  <1>1. /\ Picture(pending[d])' = Picture(pending[d]) /\ (IsKey(pending[d])' <=> IsKey(pending[d]))
        /\ Picture(au[d])' = Picture(au[d]) /\ (IsKey(au[d])' <=> IsKey(au[d]))
        /\ Picture(out[d].items)' = Picture(out[d].items)
        /\ IsKey(out[d].items)' <=> IsKey(out[d].items)
    BY DEF Picture, IsKey
  <1>2. /\ Piece(pending[d]) => Piece(pending[d])'
        /\ AllBefore(pending[d], pos[d]) => AllBefore(pending[d], pos[d])'
        /\ AllBefore(au[d], Len(log) + 1) => AllBefore(au[d], Len(log) + 1)'
    BY <1>1 DEF Piece, AllBefore
  <1>3. PlaceInv(d)'
    BY <1>2 DEF PlaceInv
  <1>4. SyncInv(d)'
    BY <1>1, <1>2 DEF SyncInv, Follows
  <1>5. ShowInv(d)'
    BY <1>1, <1>2 DEF ShowInv
  <1>. QED
    BY <1>3, <1>4, <1>5

\* The step of a client touches its own state only.
Act(c) == Accept(c) \/ InfoTimeout(c) \/ Task(c) \/ Leave(c)

LEMMA OthersSame ==
  ASSUME Types, NEW c \in Clients, Act(c)
  PROVE /\ UNCHANGED <<phoneVars, sinkVars>>
        /\ \A d \in Clients : d # c => Same(d)
        /\ Types'
  <1>. USE DEF Types, Same, Goto, Client
  <1>0. CASE Accept(c) \/ InfoTimeout(c) \/ Subscribe(c)
    BY <1>0 DEF Accept, InfoTimeout, Subscribe, phoneVars, sinkVars
  <1>1. CASE Lagged(c)
    <2>1. CASE kind = "video"
      BY <1>1, <2>1 DEF Lagged, phoneVars, sinkVars
    <2>2. CASE kind # "video"
      BY <1>1, <2>2 DEF Lagged, phoneVars, sinkVars
    <2>. QED
      BY <2>1, <2>2
  <1>2. CASE SkipConfig(c) \/ RecvAudio(c) \/ RecvPart(c)
    BY <1>2 DEF SkipConfig, RecvAudio, RecvPart, Recv, phoneVars, sinkVars
  <1>3. CASE Withhold(c) \/ ShowKey(c) \/ ShowOther(c)
    BY <1>3 DEF Withhold, ShowKey, ShowOther, Complete, Recv, phoneVars, sinkVars
  <1>4. CASE WritePsi(c) \/ WritePes(c)
    BY <1>4 DEF WritePsi, WritePes, phoneVars, sinkVars
  <1>5. CASE Leave(c)
    BY <1>5 DEF Leave, phoneVars, sinkVars
  <1>. QED
    BY <1>0, <1>1, <1>2, <1>3, <1>4, <1>5 DEF Act, Task, Reading

\* What the invariant says of client c, as a lemma about its step needs it.
Mine(c) == PlaceInv(c)' /\ SyncInv(c)' /\ ShowInv(c)'

LEMMA OpenMine ==
  ASSUME Types, NEW c \in Clients, PlaceInv(c), SyncInv(c), ShowInv(c),
         Accept(c) \/ InfoTimeout(c) \/ Subscribe(c) \/ Leave(c) \/ Lagged(c)
  PROVE Mine(c)
  <1>. USE DEF Types, Client, phoneVars, sinkVars
  <1>0. Len(log) \in Nat /\ pos[c] \in 1..Len(log) + 1
    BY LogFacts DEF PlaceInv
  <1>1. CASE Accept(c) \/ InfoTimeout(c) \/ Subscribe(c)
    <2>1. /\ pc'[c] \in {"off", "info", "recv"} /\ ~synced'[c] /\ pending'[c] = {}
          /\ au'[c] = au[c] /\ prefix'[c] = prefix[c] /\ out'[c] = out[c] /\ log' = log /\ kind' = kind /\ config' = config
      BY <1>1 DEF Accept, InfoTimeout, Subscribe, Goto, PlaceInv
    <2>2. pos'[c] \in 1..Len(log) + 1
      BY <1>0, <1>1 DEF Accept, InfoTimeout, Subscribe, Goto, PlaceInv
    <2>. QED
      BY <2>1, <2>2 DEF Mine, PlaceInv, SyncInv, ShowInv
  <1>2. CASE Leave(c)
    <2>1. /\ pc'[c] = "off" /\ ~synced'[c] /\ pending'[c] = {} /\ au'[c] = {}
          /\ prefix'[c] = 0 /\ out'[c].items = {} /\ log' = log /\ kind' = kind /\ config' = config /\ pos'[c] = 1
      BY <1>2 DEF Leave, Nothing, None
    <2>. QED
      BY <1>0, <2>1 DEF Mine, PlaceInv, SyncInv, ShowInv
  <1>3. CASE Lagged(c)
    <2>1. /\ pc'[c] = "recv" /\ au'[c] = au[c] /\ prefix'[c] = prefix[c] /\ out'[c] = out[c]
          /\ log' = log /\ kind' = kind /\ config' = config
      BY <1>3 DEF Lagged
    <2>2. pos'[c] \in 1..Len(log) + 1
      BY <1>0, <1>3 DEF Lagged, Behind
    <2>3. kind = "video" => ~synced'[c] /\ pending'[c] = {}
      BY <1>3 DEF Lagged
    <2>. QED
      BY <2>1, <2>2, <2>3 DEF Mine, PlaceInv, SyncInv, ShowInv
  <1>. QED
    BY <1>1, <1>2, <1>3

\* An item read that adds nothing to the picture.
LEMMA SkipMine ==
  ASSUME Types, NEW c \in Clients, PlaceInv(c), SyncInv(c), ShowInv(c), SkipConfig(c)
  PROVE Mine(c)
  <1>. USE DEF Types, Client, phoneVars, sinkVars
  <1>0. /\ Len(log) \in Nat /\ pos[c] \in DOMAIN log /\ DOMAIN log = 1..Len(log)
        /\ log[pos[c]].picture = 0
    BY LogFacts DEF PlaceInv, SkipConfig, Recv, Heard
  <1>1. /\ pc[c] = "recv" /\ pc'[c] = "recv" /\ pos'[c] = pos[c] + 1 /\ synced'[c] = synced[c]
        /\ pending'[c] = pending[c] /\ au'[c] = au[c] /\ prefix'[c] = prefix[c] /\ out'[c] = out[c]
        /\ log' = log /\ kind' = kind /\ config' = config
    BY DEF SkipConfig, Recv
  <1>2. /\ Picture(pending[c])' = Picture(pending[c]) /\ (IsKey(pending[c])' <=> IsKey(pending[c]))
        /\ Picture(out[c].items)' = Picture(out[c].items)
    BY <1>1 DEF Picture, IsKey
  <1>3. PlaceInv(c)'
    <2>1. ASSUME kind = "video", pending[c] # {}
          PROVE Piece(pending[c])' /\ \E m \in pending[c] : /\ \A i \in pending[c] : i <= m
                           /\ m < pos[c] + 1
                           /\ \A k \in DOMAIN log : m < k /\ k < pos[c] + 1 => log[k].picture = 0
      <3>1. Piece(pending[c])'
        BY <1>1, <2>1 DEF PlaceInv, Piece
      <3>2. PICK m \in pending[c] : /\ \A i \in pending[c] : i <= m
                                    /\ m < pos[c]
                                    /\ \A k \in DOMAIN log : m < k /\ k < pos[c] => log[k].picture = 0
        BY <2>1 DEF PlaceInv
      <3>3. m \in DOMAIN log
        BY <2>1 DEF PlaceInv, Piece
      <3>. QED
        BY <1>0, <3>1, <3>2, <3>3
    <2>2. pos[c] + 1 \in 1..Len(log) + 1
      BY <1>0
    <2>. QED
      BY <1>1, <2>1, <2>2 DEF PlaceInv
  <1>4. SyncInv(c)'
    <2>1. ASSUME kind = "video", synced[c]
          PROVE pending[c] # {} /\ Follows(pending[c], out[c].items)' /\ AllBefore(pending[c], pos[c])'
      <3>1. pending[c] # {} /\ Follows(pending[c], out[c].items) /\ AllBefore(pending[c], pos[c])
        BY <1>1, <2>1 DEF SyncInv
      <3>2. Picture(pending[c]) # 0
        <4>1. PICK i \in pending[c] : TRUE
          BY <3>1
        <4>2. Piece(pending[c])
          BY <2>1, <3>1 DEF PlaceInv
        <4>3. Picture(pending[c]) = log[i].picture /\ log[i].picture > 0
          BY <4>2, PictureOf DEF Piece
        <4>. QED
          BY <4>3
      <3>3. AllBefore(pending[c], pos[c])'
        BY <1>0, <1>1, <1>2, <3>1, <3>2 DEF AllBefore
      <3>. QED
        BY <1>2, <3>1, <3>3 DEF Follows
    <2>. QED
      BY <1>1, <2>1 DEF SyncInv
  <1>5. ShowInv(c)'
    BY <1>1 DEF ShowInv
  <1>. QED
    BY <1>3, <1>4, <1>5 DEF Mine

LEMMA AudioMine ==
  ASSUME Types, NEW c \in Clients, PlaceInv(c), RecvAudio(c)
  PROVE Mine(c)
  <1>. USE DEF Types, Client, phoneVars, sinkVars
  <1>0. Len(log) \in Nat /\ pos[c] \in DOMAIN log /\ DOMAIN log = 1..Len(log) /\ pos[c] + 1 \in 1..Len(log) + 1
    BY LogFacts DEF PlaceInv, RecvAudio, Recv
  <1>1. /\ pc'[c] = "pes" /\ pos'[c] = pos[c] + 1 /\ au'[c] = {pos[c]}
        /\ prefix'[c] = prefix[c] /\ out'[c] = out[c] /\ log' = log /\ kind' = kind /\ config' = config /\ kind = "audio"
    BY DEF RecvAudio, Recv, Goto
  <1>2. PlaceInv(c)'
    BY <1>0, <1>1 DEF PlaceInv
  <1>. QED
    BY <1>1, <1>2 DEF Mine, SyncInv, ShowInv

\* A part of the picture the client is collecting.
LEMMA PartMine ==
  ASSUME Types, NEW c \in Clients, PlaceInv(c), SyncInv(c), RecvPart(c)
  PROVE Mine(c)
  <1>. USE DEF Types, Client, phoneVars, sinkVars
  <1>0. /\ Len(log) \in Nat /\ pos[c] \in DOMAIN log /\ DOMAIN log = 1..Len(log)
        /\ log[pos[c]].picture > 0 /\ kind = "video"
        /\ pending[c] = {} \/ Picture(pending[c]) = log[pos[c]].picture
    BY LogFacts DEF PlaceInv, RecvPart, Recv, Heard
  <1>1. /\ pc[c] = "recv" /\ pc'[c] = "recv" /\ pos'[c] = pos[c] + 1 /\ synced'[c] = synced[c]
        /\ pending'[c] = pending[c] \cup {pos[c]}
        /\ au'[c] = au[c] /\ prefix'[c] = prefix[c] /\ out'[c] = out[c] /\ log' = log /\ kind' = kind /\ config' = config
    BY DEF RecvPart, Recv
  <1>2. Picture(out[c].items)' = Picture(out[c].items)
    BY <1>1 DEF Picture
  <1>. DEFINE S == pending[c] \cup {pos[c]}
  <1>3. Piece(S)
    <2>1. CASE pending[c] = {}
      BY <1>0, <2>1 DEF Piece
    <2>2. CASE pending[c] # {}
      <3>1. Piece(pending[c])
        BY <1>0, <2>2 DEF PlaceInv
      <3>2. \A i \in pending[c] : log[i].picture = log[pos[c]].picture
        BY <1>0, <2>2, <3>1, PictureOf
      <3>. QED
        BY <1>0, <3>1, <3>2 DEF Piece
    <2>. QED
      BY <2>1, <2>2
  <1>4. Picture(S) = log[pos[c]].picture
    BY <1>3, PictureOf
  <1>5. Piece(pending[c])' /\ Picture(pending[c])' = Picture(S) /\ (IsKey(pending[c])' <=> IsKey(S))
    BY <1>1, <1>3 DEF Piece, Picture, IsKey
  <1>6. PlaceInv(c)'
    <2>1. \A i \in S : i <= pos[c]
      <3>1. CASE pending[c] = {}
        BY <1>0, <3>1
      <3>2. CASE pending[c] # {}
        <4>1. PICK m \in pending[c] : (\A i \in pending[c] : i <= m) /\ m < pos[c]
          BY <1>0, <3>2 DEF PlaceInv
        <4>2. pending[c] \subseteq DOMAIN log
          BY <1>3 DEF Piece
        <4>. QED
          BY <1>0, <4>1, <4>2
      <3>. QED
        BY <3>1, <3>2
    <2>2. pos[c] + 1 \in 1..Len(log) + 1 /\ pos[c] < pos[c] + 1
          /\ \A k \in DOMAIN log : ~(pos[c] < k /\ k < pos[c] + 1)
      BY <1>0
    <2>. HIDE DEF S
    <2>3. pos[c] \in S /\ pending'[c] = S
      BY <1>1 DEF S
    <2>. QED
      BY <1>1, <1>5, <2>1, <2>2, <2>3 DEF PlaceInv
  <1>7. SyncInv(c)'
    <2>1. ASSUME synced[c]
          PROVE pending[c]' # {} /\ Follows(pending[c], out[c].items)' /\ AllBefore(pending[c], pos[c])'
      <3>1. pending[c] # {} /\ Follows(pending[c], out[c].items) /\ AllBefore(pending[c], pos[c])
        BY <1>0, <1>1, <2>1 DEF SyncInv
      <3>2. IsKey(pending[c]) => IsKey(S)
        BY DEF IsKey
      <3>3. Picture(pending[c]) = Picture(S)
        BY <1>0, <1>4, <3>1
      <3>. HIDE DEF S
      <3>4. Follows(pending[c], out[c].items)'
        BY <1>2, <1>5, <3>1, <3>2, <3>3 DEF Follows
      <3>5. AllBefore(pending[c], pos[c])'
        <4>1. \A i \in DOMAIN log : i < pos[c] + 1 /\ log[i].picture = Picture(S) => i \in S
          <5>1. \A i \in DOMAIN log : i < pos[c] /\ log[i].picture = Picture(S) => i \in pending[c]
            BY <3>1, <3>3 DEF AllBefore
          <5>2. \A i \in DOMAIN log : i < pos[c] + 1 => i < pos[c] \/ i = pos[c]
            BY <1>0
          <5>3. pending[c] \subseteq S /\ pos[c] \in S
            BY DEF S
          <5>. QED
            BY <5>1, <5>2, <5>3
        <4>. QED
          BY <1>1, <1>5, <4>1 DEF AllBefore, S
      <3>. QED
        BY <1>1, <3>4, <3>5
    <2>. QED
      BY <1>1, <2>1 DEF SyncInv
  <1>8. ShowInv(c)'
    BY <1>1 DEF ShowInv
  <1>. QED
    BY <1>6, <1>7, <1>8 DEF Mine

\* The first part of the next picture, and what becomes of the one before.
LEMMA CompleteMine ==
  ASSUME Types, LogInv, NEW c \in Clients, PlaceInv(c), SyncInv(c),
         Withhold(c) \/ ShowKey(c) \/ ShowOther(c)
  PROVE Mine(c)
  <1>. USE DEF Types, Client, phoneVars, sinkVars
  <1>. DEFINE S == pending[c]
             T == {pos[c]}
             p == pos[c]
  <1>0. Complete(c)
    BY DEF Withhold, ShowKey, ShowOther
  <1>1. /\ Len(log) \in Nat /\ p \in DOMAIN log /\ DOMAIN log = 1..Len(log)
        /\ \A i \in DOMAIN log : log[i].picture \in Nat
        /\ log[p].picture > 0 /\ kind = "video" /\ S # {} /\ Picture(S) # log[p].picture
    BY <1>0, LogFacts DEF PlaceInv, Complete, Recv, Heard
  <1>2. /\ pc[c] = "recv" /\ p + 1 = pos'[c] /\ pending'[c] = T
        /\ prefix'[c] = prefix[c] /\ out'[c] = out[c] /\ log' = log /\ kind' = kind /\ config' = config
    BY <1>0 DEF Complete, Recv
  <1>3. Piece(S)
    BY <1>1 DEF PlaceInv
  <1>4. PICK m \in S : /\ \A i \in S : i <= m
                       /\ m < p
                       /\ \A k \in DOMAIN log : m < k /\ k < p => log[k].picture = 0
    BY <1>1 DEF PlaceInv
  <1>5. m \in DOMAIN log /\ Picture(S) = log[m].picture /\ log[m].picture > 0
    BY <1>3, PictureOf DEF Piece
  <1>6. log[m].picture < log[p].picture
    BY <1>1, <1>4, <1>5 DEF LogInv, OrderInv
  <1>7. Piece(T) /\ Picture(T) = log[p].picture /\ (IsKey(T) <=> log[p].key)
    <2>1. Piece(T)
      BY <1>1 DEF Piece
    <2>. QED
      BY <2>1, PictureOf DEF IsKey
  <1>8. /\ Piece(pending[c])' /\ Picture(pending[c])' = Picture(T) /\ (IsKey(pending[c])' <=> IsKey(T))
        /\ Picture(out[c].items)' = Picture(out[c].items)
    BY <1>2, <1>7 DEF Piece, Picture, IsKey
  <1>9. /\ au'[c] \subseteq DOMAIN log /\ pc'[c] \in {"recv", "psi", "pes"}
        /\ pc'[c] \in {"psi", "pes"} => au'[c] # {}
        => PlaceInv(c)'
    <2>1. p + 1 \in 1..Len(log) + 1 /\ p < p + 1 /\ (\A i \in T : i <= p)
          /\ \A k \in DOMAIN log : ~(p < k /\ k < p + 1)
      BY <1>1
    <2>2. p \in pending'[c]
      BY <1>2
    <2>. QED
      BY <1>2, <1>8, <2>1, <2>2 DEF PlaceInv
  <1>10. Follows(T, S)
    <2>1. ASSUME ~log[p].key PROVE log[p].picture = log[m].picture + 1
      <3>1. PICK i \in DOMAIN log : i < p /\ log[i].picture > 0 /\ log[i].picture + 1 >= log[p].picture
        BY <1>1, <2>1 DEF LogInv, StepInv, Base
      <3>2. i <= m
        BY <1>1, <1>4, <1>5, <3>1
      <3>3. log[i].picture <= log[m].picture
        BY <1>1, <1>5, <3>2 DEF LogInv, OrderInv
      <3>. QED
        BY <1>1, <1>5, <1>6, <3>1, <3>3
    <2>. QED
      BY <1>5, <1>7, <2>1 DEF Follows
  <1>11. AllBefore(pending[c], pos[c])'
    <2>1. \A i \in DOMAIN log : i < p + 1 /\ log[i].picture = log[p].picture => i = p
      <3>. SUFFICES ASSUME NEW i \in DOMAIN log, i < p, log[i].picture = log[p].picture PROVE FALSE
        BY <1>1
      <3>1. CASE i <= m
        BY <1>1, <1>5, <1>6, <3>1 DEF LogInv, OrderInv
      <3>2. CASE m < i
        BY <1>1, <1>4, <3>2
      <3>. QED
        BY <1>1, <1>5, <3>1, <3>2
    <2>. QED
      BY <1>2, <1>7, <1>8, <2>1 DEF AllBefore
  <1>12. CASE Withhold(c)
    <2>1. pc'[c] = "recv" /\ ~synced'[c] /\ au'[c] = au[c]
      BY <1>2, <1>12 DEF Withhold
    <2>2. PlaceInv(c)'
      BY <1>9, <2>1 DEF PlaceInv
    <2>. QED
      BY <2>1, <2>2 DEF Mine, SyncInv, ShowInv
  <1>13. ASSUME \/ pc'[c] = "psi" /\ IsKey(S)
                \/ pc'[c] = "pes" /\ ~IsKey(S) /\ synced[c],
                synced'[c], au'[c] = S, ~opens'[c] => synced[c]
         PROVE Mine(c)
    <2>1. PlaceInv(c)'
      BY <1>1, <1>3, <1>9, <1>13 DEF Piece
    <2>2. Picture(au[c])' = Picture(S) /\ (IsKey(au[c])' <=> IsKey(S))
      BY <1>2, <1>13 DEF Picture, IsKey
    <2>3. synced[c] => Follows(S, out[c].items) /\ AllBefore(S, p)
      BY <1>1, <1>2 DEF SyncInv
    <2>4. Follows(au[c], out[c].items)'
      BY <1>8, <1>13, <2>2, <2>3 DEF Follows
    <2>5. Follows(pending[c], au[c])'
      BY <1>8, <1>10, <2>2 DEF Follows
    <2>6. SyncInv(c)'
      BY <1>2, <1>11, <1>13, <2>4, <2>5 DEF SyncInv
    <2>7. ASSUME ~opens'[c] PROVE AllBefore(au[c], Len(log) + 1)'
      <3>1. \A i \in DOMAIN log : log[i].picture = Picture(S) => i < p
        BY <1>1, <1>5, <1>6 DEF LogInv, OrderInv
      <3>2. \A i \in DOMAIN log : log[i].picture = Picture(S) => i \in S
        BY <1>13, <2>3, <2>7, <3>1 DEF AllBefore
      <3>. QED
        BY <1>2, <1>13, <2>2, <3>2 DEF AllBefore
    <2>8. Picture(S) > 0 /\ \E i \in DOMAIN log : log[i].picture > Picture(S)
      BY <1>1, <1>5, <1>6
    <2>9. ShowInv(c)'
      BY <1>2, <1>13, <2>2, <2>7, <2>8 DEF ShowInv
    <2>. QED
      BY <2>1, <2>6, <2>9 DEF Mine
  <1>14. CASE ShowKey(c)
    <2>1. synced'[c] /\ au'[c] = S
      BY <1>14 DEF ShowKey
    <2>2. pc'[c] = "psi" /\ IsKey(S)
      BY <1>14 DEF ShowKey, Goto
    <2>3. ~opens'[c] => synced[c]
      BY <1>14, Zenon DEF ShowKey
    <2>. QED
      BY <1>13, <2>1, <2>2, <2>3, Zenon
  <1>15. CASE ShowOther(c)
    BY <1>13, <1>15 DEF ShowOther, Goto
  <1>. QED
    BY <1>12, <1>14, <1>15

LEMMA PsiMine ==
  ASSUME Types, LogInv, NEW c \in Clients, PlaceInv(c), SyncInv(c), ShowInv(c), WritePsi(c)
  PROVE Mine(c)
  <1>. USE DEF Types, Client, phoneVars, sinkVars
  <1>1. /\ pc[c] = "psi" /\ pc'[c] = "pes" /\ pos'[c] = pos[c] /\ synced'[c] = synced[c]
        /\ pending'[c] = pending[c] /\ au'[c] = au[c] /\ prefix'[c] = config /\ out'[c] = out[c]
        /\ opens'[c] = opens[c]
        /\ log' = log /\ kind' = kind /\ config' = config
    BY DEF WritePsi, Goto
  <1>2. /\ Picture(pending[c])' = Picture(pending[c]) /\ (IsKey(pending[c])' <=> IsKey(pending[c]))
        /\ Picture(au[c])' = Picture(au[c]) /\ (IsKey(au[c])' <=> IsKey(au[c]))
        /\ Picture(out[c].items)' = Picture(out[c].items)
    BY <1>1 DEF Picture, IsKey
  <1>3. /\ Piece(pending[c]) => Piece(pending[c])'
        /\ AllBefore(pending[c], pos[c]) => AllBefore(pending[c], pos[c])'
        /\ AllBefore(au[c], Len(log) + 1) => AllBefore(au[c], Len(log) + 1)'
    BY <1>1, <1>2 DEF Piece, AllBefore
  <1>4. PlaceInv(c)'
    BY <1>1, <1>3 DEF PlaceInv
  <1>5. SyncInv(c)'
    BY <1>1, <1>2, <1>3 DEF SyncInv, Follows
  <1>6. ShowInv(c)'
    <2>1. kind = "video" => \A i \in au[c] : log[i].config <= config
      BY <1>1 DEF LogInv, ConfigInv, PlaceInv
    <2>. QED
      BY <1>1, <1>2, <1>3, <2>1 DEF ShowInv
  <1>. QED
    BY <1>4, <1>5, <1>6 DEF Mine

LEMMA PesMine ==
  ASSUME Types, NEW c \in Clients, PlaceInv(c), SyncInv(c), WritePes(c)
  PROVE Mine(c)
  <1>. USE DEF Types, Client, phoneVars, sinkVars
  <1>1. /\ pc[c] = "pes" /\ pc'[c] = "recv" /\ pos'[c] = pos[c] /\ synced'[c] = synced[c]
        /\ pending'[c] = pending[c] /\ au'[c] = {} /\ prefix'[c] = 0 /\ out'[c].items = au[c]
        /\ log' = log /\ kind' = kind /\ config' = config
    BY DEF WritePes, Goto, None
  <1>2. /\ Picture(pending[c])' = Picture(pending[c]) /\ (IsKey(pending[c])' <=> IsKey(pending[c]))
        /\ Picture(out[c].items)' = Picture(au[c])
    BY <1>1 DEF Picture, IsKey
  <1>3. /\ Piece(pending[c]) => Piece(pending[c])'
        /\ AllBefore(pending[c], pos[c]) => AllBefore(pending[c], pos[c])'
    BY <1>1, <1>2 DEF Piece, AllBefore
  <1>4. PlaceInv(c)'
    BY <1>1, <1>3 DEF PlaceInv
  <1>5. SyncInv(c)'
    BY <1>1, <1>2, <1>3 DEF SyncInv, Follows
  <1>6. ShowInv(c)'
    BY <1>1 DEF ShowInv
  <1>. QED
    BY <1>4, <1>5, <1>6 DEF Mine

---------------------------------------------------------------------------
(* The theorems.                                                           *)

LEMMA NextInv == IInv /\ [Next]_vars => IInv'
  <1>. SUFFICES ASSUME IInv, [Next]_vars PROVE IInv'
    OBVIOUS
  <1>0. Types /\ LogInv /\ ClientInv
    BY DEF IInv
  <1>1. CASE Phone
    <2>1. Types' /\ LogInv'
      BY <1>0, <1>1, PhoneLogInv
    <2>2. ClientInv'
      BY <1>0, <1>1, PhoneGrows, PhoneClientInv
    <2>. QED
      BY <2>1, <2>2 DEF IInv
  <1>2. ASSUME UNCHANGED <<phoneVars, sinkVars>> PROVE LogInv'
    BY <1>0, <1>2 DEF phoneVars, sinkVars, LogInv, ConfigInv, Configured, Item, OrderInv, StepInv,
                      Base, AudioInv
  <1>3. ASSUME NEW c \in Clients, Act(c) PROVE IInv'
    <2>1. Types' /\ UNCHANGED <<phoneVars, sinkVars>> /\ \A d \in Clients : d # c => Same(d)
      BY <1>0, <1>3, OthersSame
    <2>2. PlaceInv(c) /\ SyncInv(c) /\ ShowInv(c)
      BY <1>0 DEF ClientInv
    <2>3. Mine(c)
      BY <1>0, <1>3, <2>2, OpenMine, SkipMine, AudioMine, PartMine, CompleteMine, PsiMine, PesMine
         DEF Act, Task, Reading
    <2>4. ASSUME NEW d \in Clients PROVE PlaceInv(d)' /\ SyncInv(d)' /\ ShowInv(d)'
      <3>1. CASE d = c
        BY <2>3, <3>1 DEF Mine
      <3>2. CASE d # c
        <4>1. Same(d) /\ UNCHANGED <<kind, log, config>> /\ PlaceInv(d) /\ SyncInv(d) /\ ShowInv(d)
          BY <1>0, <2>1, <3>2 DEF ClientInv, phoneVars, sinkVars
        <4>. QED
          BY <4>1, SameInv
      <3>. QED
        BY <3>1, <3>2
    <2>5. LogInv'
      BY <1>2, <2>1
    <2>. QED
      BY <2>1, <2>4, <2>5 DEF IInv, ClientInv
  <1>4. CASE UNCHANGED vars
    <2>1. Types'
      BY <1>0, <1>4 DEF vars, phoneVars, sinkVars, clientVars, Types
    <2>2. LogInv'
      BY <1>2, <1>4 DEF vars
    <2>3. ASSUME NEW d \in Clients PROVE PlaceInv(d)' /\ SyncInv(d)' /\ ShowInv(d)'
      <3>1. Same(d) /\ UNCHANGED <<kind, log, config>> /\ PlaceInv(d) /\ SyncInv(d) /\ ShowInv(d)
        BY <1>0, <1>4 DEF ClientInv, vars, phoneVars, sinkVars, clientVars, Same
      <3>. QED
        BY <3>1, SameInv
    <2>. QED
      BY <2>1, <2>2, <2>3 DEF IInv, ClientInv
  <1>. QED
    BY <1>1, <1>3, <1>4 DEF Next, Act

LEMMA Invariant == Spec => []IInv
  BY InitInv, NextInv, PTL DEF Spec

\* Only the end of a write shows anything.
LEMMA ShownStep ==
  ASSUME Types, [Next]_vars, NEW c \in Clients, Shows(c)
  PROVE pc[c] = "pes" /\ out'[c] = [items |-> au[c], config |-> prefix[c]]
  <1>1. CASE Phone \/ UNCHANGED vars
    <2>1. UNCHANGED clientVars
      BY <1>1 DEF Phone, BeginStream, CodecConfig, BeginPicture, WholeMessage, FirstFragment,
                  LastFragment, vars, clientVars
    <2>. QED
      BY <2>1 DEF Shows, clientVars
  <1>2. ASSUME NEW d \in Clients, Act(d)
        PROVE pc[c] = "pes" /\ out'[c] = [items |-> au[c], config |-> prefix[c]]
    <2>1. d = c
      BY <1>2, OthersSame DEF Shows, Same
    <2>2. CASE WritePes(c)
      BY <2>2 DEF WritePes, Goto, Types
    <2>3. CASE Leave(c)
      BY <2>3 DEF Leave, Shows, Types
    <2>4. CASE Accept(c) \/ InfoTimeout(c) \/ Subscribe(c) \/ Lagged(c) \/ WritePsi(c)
      <3>1. out' = out
        BY <2>4 DEF Accept, InfoTimeout, Subscribe, Lagged, WritePsi
      <3>. QED
        BY <3>1 DEF Shows
    <2>5. CASE SkipConfig(c) \/ RecvAudio(c) \/ RecvPart(c) \/ Withhold(c) \/ ShowKey(c) \/ ShowOther(c)
      <3>1. out' = out
        BY <2>5 DEF SkipConfig, RecvAudio, RecvPart, Withhold, ShowKey, ShowOther, Complete, Recv
      <3>. QED
        BY <3>1 DEF Shows
    <2>. QED
      BY <1>2, <2>1, <2>2, <2>3, <2>4, <2>5 DEF Act, Task, Reading
  <1>. QED
    BY <1>1, <1>2 DEF Next, Act

\* For any number of clients, streams and pictures, any loss and any reconnection, a
\* client is shown nothing out of order: a key picture comes with a configuration
\* that is at least its own stream's and one the program has cached, any other
\* picture after the one it builds on (media_tcp_server, send_codec_config).
THEOREM ShowsInOrder == Spec => InOrder
  <1>1. IInv /\ [Next]_vars =>
          [\A c \in Clients : Shows(c) =>
            IF IsKey(out'[c].items)
            THEN kind = "video" => \A i \in out'[c].items : out'[c].config \in log[i].config..config
            ELSE Shown(c) = Picture(out[c].items) + 1]_vars
    <2>. SUFFICES ASSUME IInv, [Next]_vars, NEW c \in Clients, Shows(c)
                  PROVE IF IsKey(out'[c].items)
                        THEN kind = "video" =>
                                \A i \in out'[c].items : out'[c].config \in log[i].config..config
                        ELSE Shown(c) = Picture(out[c].items) + 1
      OBVIOUS
    <2>0. Types /\ LogInv /\ PlaceInv(c) /\ SyncInv(c) /\ ShowInv(c)
      BY DEF IInv, ClientInv
    <2>1. pc[c] = "pes" /\ out'[c].items = au[c] /\ out'[c].config = prefix[c]
      <3>1. pc[c] = "pes" /\ out'[c] = [items |-> au[c], config |-> prefix[c]]
        BY <2>0, ShownStep
      <3>. QED
        BY <3>1
    <2>2. ASSUME IsKey(au[c]), kind = "video"
          PROVE \A i \in au[c] : prefix[c] \in log[i].config..config
      <3>1. \A i \in au[c] : log[i].config <= prefix[c] /\ log[i].config \in Nat
        BY <2>0, <2>1, <2>2, LogFacts DEF ShowInv, PlaceInv
      <3>2. config \in Nat /\ prefix[c] \in Nat /\ prefix[c] <= config
        BY <2>0 DEF PlaceInv, Types
      <3>. QED
        BY <3>1, <3>2
    <2>3. ASSUME ~IsKey(au[c]) PROVE Picture(au[c]) = Picture(out[c].items) + 1
      <3>1. kind = "video"
        <4>1. au[c] # {} /\ au[c] \subseteq DOMAIN log
          BY <2>0, <2>1 DEF PlaceInv
        <4>2. kind = "audio" => \A i \in DOMAIN log : log[i].key
          BY <2>0 DEF LogInv, AudioInv
        <4>. QED
          BY <2>0, <2>3, <4>1, <4>2 DEF IsKey, Types
      <3>. QED
        BY <2>0, <2>1, <2>3, <3>1 DEF SyncInv, Follows
    <2>. QED
      BY <2>1, <2>2, <2>3 DEF Shown
  <1>. QED
    BY <1>1, Invariant, PTL DEF Spec, InOrder

\* For any number of clients, parts and pictures, no picture, key or not, is shown
\* without one of its parts, except the one a client begins with when it has
\* connected or lagged (media_tcp_server).
THEOREM ShowsWhole == Spec => Whole
  <1>1. IInv /\ [Next]_vars =>
          [\A c \in Clients : Shows(c) /\ kind = "video" /\ ~opens[c] =>
            \A i \in DOMAIN log : log[i].picture = Shown(c) => i \in out'[c].items]_vars
    <2>. SUFFICES ASSUME IInv, [Next]_vars, NEW c \in Clients, Shows(c), kind = "video", ~opens[c]
                  PROVE \A i \in DOMAIN log : log[i].picture = Shown(c) => i \in out'[c].items
      OBVIOUS
    <2>0. Types /\ ShowInv(c)
      BY DEF IInv, ClientInv
    <2>1. pc[c] = "pes" /\ out'[c].items = au[c]
      <3>1. pc[c] = "pes" /\ out'[c] = [items |-> au[c], config |-> prefix[c]]
        BY <2>0, ShownStep
      <3>. QED
        BY <3>1
    <2>2. AllBefore(au[c], Len(log) + 1)
      BY <2>0, <2>1 DEF ShowInv
    <2>. QED
      BY <2>0, <2>1, <2>2, LogFacts DEF AllBefore, Shown
  <1>. QED
    BY <1>1, Invariant, PTL DEF Spec, Whole
=============================================================================
