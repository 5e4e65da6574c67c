----------------------------- MODULE WireCodecs -----------------------------
(***************************************************************************)
(* The datagrams: the fixed control messages (src/transport.rs), admission *)
(* (src/secure_transport.rs), player states (src/player_replication.rs),   *)
(* weapon states (src/ballistics/state_wire.rs), delta frames              *)
(* (src/replication.rs), snapshot frames and their payload                 *)
(* (src/snapshot.rs); what an encoder writes, field by field, what the     *)
(* decoder reads at the other end, and how a delta is cut into frames.     *)
(*                                                                         *)
(* A datagram is made of blocks: a number (a version, a kind, a count), or *)
(* the fields of a layout for one entry, of which one may be odd: have a   *)
(* value that a check can refuse, as a nonce that is zero, flags or a      *)
(* material that are unknown, a state out of its range.  What is read at a *)
(* place is what was written there if the block begins there, has those    *)
(* fields in that order, with those widths, and has all arrived.           *)
(***************************************************************************)
EXTENDS Integers, Sequences, SequencesExt, FiniteSets, TLC

CONSTANTS
  FewEntries,        \* bounds of the model: numbers of entries in a message,
  CredentialSizes,   \* of bytes in a credential,
  MostLost,          \* bytes cut off a datagram,
  Datagrams          \* application_datagram_bytes of the deployed servers

QuicDatagram == 1100 \* MAX_QUIC_DATAGRAM_PAYLOAD_BYTES, of the secure server
Largest == 1200      \* MAX_UDP_DATAGRAM_BYTES, MAX_DATAGRAM_BYTES

ASSUME WireAssumption ==
  /\ FewEntries \subseteq Nat /\ CredentialSizes \subseteq Nat
  /\ MostLost \in Nat /\ Datagrams \subseteq QuicDatagram..Largest

VARIABLES
  message,           \* the message sent, [kind, counts, odd]
  datagram,          \* its bytes as they arrive
  packet             \* numbers of a committed delta, and where it is sent

WireVars == <<message, datagram, packet>>

MaxPlayers == 16
MinCredential == 16
MaxCredential == 4096

-----------------------------------------------------------------------------
(* Layouts *)
Field(name, width) == <<[of |-> name, width |-> width]>>
Vector(name, width) ==
  Field(name \o ".x", width) \o Field(name \o ".y", width) \o Field(name \o ".z", width)

(* The fields with their places in the block. *)
Laid(fields) ==
  LET End[i \in 0..Len(fields)] == IF i = 0 THEN 0 ELSE End[i - 1] + fields[i].width
  IN  [fields |-> [i \in DOMAIN fields |->
                     [of |-> fields[i].of, width |-> fields[i].width, at |-> End[i - 1]]],
       width |-> End[Len(fields)]]

Session == Field("session", 8)
Command == Session \o Field("command", 8)

ControlKinds ==
  [hello |-> 1, welcome |-> 2, explosion |-> 3, repair |-> 4, snapshot |-> 5,
   fragments |-> 6, ack |-> 7, build |-> 8, input |-> 9, rifle |-> 10, reload |-> 11]

ControlBytes ==
  [hello |-> 14, welcome |-> 22, explosion |-> 40, repair |-> 22, snapshot |-> 14,
   fragments |-> 32, ack |-> 22, build |-> 35, input |-> 27, rifle |-> 28, reload |-> 22]

FromServer == {"welcome"}

ControlFields ==
  [hello |-> Field("nonce", 8),
   welcome |-> Field("nonce", 8) \o Session,
   explosion |-> Command \o Vector("center", 4) \o Field("radius", 2) \o Field("energy", 4),
   rifle |-> Command \o Vector("direction", 2),
   reload |-> Command,
   build |-> Command \o Vector("position", 4) \o Field("material", 1),
   input |-> Session \o Field("input", 8) \o Field("right", 2) \o Field("forward", 2)
               \o Field("flags", 1),
   repair |-> Session \o Field("missing", 8),
   snapshot |-> Session,
   fragments |-> Session \o Field("id", 8) \o Field("base", 2) \o Field("mask", 8),
   ack |-> Session \o Field("id", 8)]

ControlReadFields ==
  [rifle |-> Session \o Field("command", 8) \o Vector("direction", 2),
   reload |-> Session \o Field("command", 8),
   hello |-> Field("nonce", 8),
   explosion |-> Session \o Field("command", 8) \o Vector("center", 4) \o Field("radius", 2)
                   \o Field("energy", 4),
   build |-> Session \o Field("command", 8) \o Vector("position", 4) \o Field("material", 1),
   input |-> Session \o Field("input", 8) \o Field("right", 2) \o Field("forward", 2)
               \o Field("flags", 1),
   repair |-> Session \o Field("missing", 8),
   snapshot |-> Session,
   fragments |-> Session \o Field("id", 8) \o Field("base", 2) \o Field("mask", 8),
   ack |-> Session \o Field("id", 8),
   welcome |-> Field("nonce", 8) \o Session]

WelcomeFields == Field("nonce", 8) \o Field("session", 8) \o Field("serverNonce", 8)

PlayerEntry ==
  Field("session", 8) \o Vector("position", 8) \o Vector("velocity", 4)
    \o Vector("remainder", 1) \o Field("last", 8) \o Field("flags", 1)

WeaponFields ==
  Field("session", 8) \o Field("tick", 8) \o Field("command", 8) \o Field("magazine", 2)
    \o Field("reserve", 2) \o Field("nextFire", 8) \o Field("reload", 8)

(* WeaponStatePacket::decode reads at fixed places. *)
SwappedPlaces ==
  [session |-> <<5, 8>>, tick |-> <<21, 8>>, command |-> <<13, 8>>, magazine |-> <<29, 2>>,
   reserve |-> <<31, 2>>, nextFire |-> <<33, 8>>, reload |-> <<41, 8>>]
WeaponPlaces ==
  [session |-> <<5, 8>>, tick |-> <<13, 8>>, command |-> <<21, 8>>, magazine |-> <<29, 2>>,
   reserve |-> <<31, 2>>, nextFire |-> <<33, 8>>, reload |-> <<41, 8>>]
WeaponBytes == 49

BodyState ==
  Vector("translation", 8) \o Vector("velocity", 8)
    \o Vector("orientation", 4) \o Field("orientation.w", 4)
    \o Vector("spin", 8) \o Field("remainder", 3) \o Field("spinRemainder", 3)
    \o Field("sleepTicks", 2) \o Field("sleeping", 1)

DeltaHeader ==
  Field("sequence", 8) \o Field("tick", 8) \o Field("base", 16) \o Field("final", 16)
    \o Field("baseBodies", 16) \o Field("finalBodies", 16) \o Field("index", 2)
    \o Field("fragments", 2)
Change == Vector("position", 4) \o Field("before", 2) \o Field("after", 2)
Assignment == Field("body", 8) \o Vector("position", 4) \o Field("voxel", 2)
Update == Field("body", 8) \o BodyState
HeaderBytes == 96
EntryBytes == <<16, 22, 105>>      \* CHANGE_, BODY_ASSIGNMENT_, BODY_UPDATE_BYTES

SnapshotHeader ==
  Field("id", 8) \o Field("index", 2) \o Field("fragments", 2) \o Field("total", 4)
    \o Field("hash", 16)
PayloadHeader ==
  Field("tick", 8) \o Field("fingerprint", 16) \o Field("nextBody", 8)
    \o Field("nextSequence", 8)
StoredVoxel == Vector("position", 4) \o Field("voxel", 2)

ControlWrites == [k \in DOMAIN ControlFields |-> Laid(ControlFields[k])]
ControlReads == [k \in DOMAIN ControlReadFields |-> Laid(ControlReadFields[k])]
Nonce == Laid(Field("nonce", 8))
WelcomeNumbers == Laid(WelcomeFields)
PlayerTick == Laid(Field("tick", 8))
Player == Laid(PlayerEntry)
Weapon == Laid(WeaponFields)
WeaponReads ==
  [fields |-> [i \in DOMAIN WeaponFields |->
                 LET place == WeaponPlaces[WeaponFields[i].of]
                 IN  [of |-> WeaponFields[i].of, width |-> place[2], at |-> place[1] - 5]],
   width |-> WeaponBytes - 5]
Header == Laid(DeltaHeader)
Entry == <<Laid(Change), Laid(Assignment), Laid(Update)>>
PartHeader == Laid(SnapshotHeader)
CheckpointHeader == Laid(PayloadHeader)
Voxel == Laid(StoredVoxel)
BodyName == Laid(Field("body", 8))
Body == Laid(BodyState)
OneByte == [name \in {"credential", "payload"} |-> Laid(Field(name, 1))]

-----------------------------------------------------------------------------
(* Encoders *)
HasField(layout, name) == \E i \in DOMAIN layout.fields : layout.fields[i].of = name

Block(layout, entry, m) ==
  <<[layout |-> layout, entry |-> entry, odd |-> IF HasField(layout, m.odd) THEN m.odd ELSE "",
     value |-> 0]>>

Number(name, width, n) ==
  <<[layout |-> Laid(Field(name, width)), entry |-> 0, odd |-> "", value |-> n]>>

Blocks(layout, n, m) == FlattenSeq([i \in 1..n |-> Block(layout, i, m)])

Prefix(magic, numbers) ==
  Number(magic, 4, 0) \o FlattenSeq([i \in DOMAIN numbers |-> Number("u8", 1, numbers[i])])

Spell(blocks) ==
  FoldLeft(LAMBDA d, b : [at |-> d.size :> b @@ d.at, size |-> d.size + b.layout.width],
           [at |-> <<>>, size |-> 0], blocks)

EncodeControl(m) ==
  Prefix("DFCT", <<4, ControlKinds[m.kind]>>) \o Block(ControlWrites[m.kind], 0, m)

EncodeAdmission(m) ==
  IF m.kind = "sessionHello"
  THEN Prefix("DFQS", <<1, 1>>) \o Block(Nonce, 0, m) \o Number("u16", 2, m.counts[1])
         \o Blocks(OneByte.credential, m.counts[1], m)
  ELSE Prefix("DFQS", <<1, 2>>) \o Block(WelcomeNumbers, 0, m)

EncodePlayers(m) ==
  Prefix("DFPL", <<2>>) \o Block(PlayerTick, 0, m) \o Number("u8", 1, m.counts[1])
    \o Blocks(Player, m.counts[1], m)

EncodeWeapon(m) == Prefix("DFWS", <<1>>) \o Block(Weapon, 0, m)

EncodeFrame(m) ==
  Prefix("DFPS", <<6, 1>>) \o Block(Header, 0, m)
    \o FlattenSeq([e \in 1..3 |-> Number("u16", 2, m.counts[e])])
    \o FlattenSeq([e \in 1..3 |-> Blocks(Entry[e], m.counts[e], m)])

EncodeSnapshotFrame(m) ==
  Prefix("DFSN", <<2, 1>>) \o Block(PartHeader, 0, m) \o Blocks(OneByte.payload, m.counts[1], m)

(* The counts of a payload: its static voxels, then the voxels of each body. *)
EncodePayload(m) ==
  Block(CheckpointHeader, 0, m) \o Number("u32", 4, m.counts[1])
    \o Number("u32", 4, Len(m.counts) - 1) \o Blocks(Voxel, m.counts[1], m)
    \o FlattenSeq([b \in 1..Len(m.counts) - 1 |->
         Block(BodyName, b, m) \o Number("u32", 4, m.counts[b + 1]) \o Block(Body, b, m)
           \o Blocks(Voxel, m.counts[b + 1], m)])

Write(m) ==
  CASE m.kind \in DOMAIN ControlKinds -> EncodeControl(m)
    [] m.kind \in {"sessionHello", "sessionWelcome"} -> EncodeAdmission(m)
    [] m.kind = "players" -> EncodePlayers(m)
    [] m.kind = "weapon" -> EncodeWeapon(m)
    [] m.kind = "frame" -> EncodeFrame(m)
    [] m.kind = "part" -> EncodeSnapshotFrame(m)
    [] m.kind = "payload" -> EncodePayload(m)

(* Fields that no sender can make odd: their types, and what the authority *)
(* keeps true of its state, exclude it; or its encoder refuses them.       *)
BodyParts == {BodyState[i].of : i \in DOMAIN BodyState}
WeaponParts == {"session", "tick", "magazine", "reserve", "nextFire", "reload"}
PlayerParts == {PlayerEntry[i].of : i \in DOMAIN PlayerEntry} \ {"last"}

Checked ==
  [build |-> {"material"}, input |-> {"flags"},
   sessionHello |-> {"nonce"}, sessionWelcome |-> {"nonce", "session", "serverNonce"},
   players |-> PlayerParts \cup {"tick"},
   weapon |-> WeaponParts,
   frame |-> {"index", "fragments", "before", "after", "voxel"} \cup BodyParts,
   part |-> {"id", "index", "fragments", "total"},
   payload |-> {"fingerprint", "nextBody", "nextSequence", "position.x", "voxel", "body"}
                \cup BodyParts]

ChecksOf(kind) == IF kind \in DOMAIN Checked THEN Checked[kind] ELSE {}

-----------------------------------------------------------------------------
(* Decoders: the blocks read, or none when the datagram is refused. *)
NoReading == <<>>
Garbled == [layout |-> Laid(<<>>), entry |-> 0, odd |-> "", value |-> 0]

ReadAt(d, p, layout) ==
  IF p \in DOMAIN d.at /\ p + layout.width <= d.size
  THEN IF d.at[p].layout = layout THEN <<d.at[p]>> ELSE <<Garbled>>
  ELSE <<Garbled>>

ReadBlocks(d, p, layout, n) ==
  FlattenSeq([i \in 1..n |-> ReadAt(d, p + (i - 1) * layout.width, layout)])

NumberAt(d, p) == IF p \in DOMAIN d.at THEN d.at[p].value ELSE 0

Admitted(read, kind) ==
  IF \E i \in DOMAIN read : read[i].odd \in ChecksOf(kind) THEN NoReading ELSE read

Begins(d, magic) == d.size >= 4 /\ d.at[0] = Number(magic, 4, 0)[1]

(* decode_client_control and decode_server_control, of the kinds they know *)
DecodeControl(d, kinds) ==
  LET named == {k \in kinds : ControlKinds[k] = NumberAt(d, 5)}
      kind == CHOOSE k \in named : TRUE
  IN  IF ~(d.size \in 6..Largest /\ Begins(d, "DFCT")) THEN NoReading
      ELSE IF NumberAt(d, 4) # 4 \/ named = {} THEN NoReading
      ELSE IF d.size # ControlBytes[kind] THEN NoReading
      ELSE Admitted(ReadAt(d, 6, ControlReads[kind]), kind)

AdmissionPrefix(d, kind, largest) ==
  /\ d.size \in 6..largest /\ Begins(d, "DFQS")
  /\ NumberAt(d, 4) = 1 /\ NumberAt(d, 5) = kind

DecodeHello(d) ==
  LET length == NumberAt(d, 14)
  IN  IF ~AdmissionPrefix(d, 1, 16 + MaxCredential) \/ d.size < 16 THEN NoReading
      ELSE IF length \notin MinCredential..MaxCredential \/ d.size # 16 + length THEN NoReading
      ELSE Admitted(ReadAt(d, 6, Nonce) \o ReadBlocks(d, 16, OneByte.credential, length),
                    "sessionHello")

DecodeWelcome(d) ==
  IF ~AdmissionPrefix(d, 2, 30) \/ d.size # 30 THEN NoReading
  ELSE Admitted(ReadAt(d, 6, WelcomeNumbers), "sessionWelcome")

DecodePlayers(d) ==
  LET players == NumberAt(d, 13)
  IN  IF ~(d.size \in 14..14 + MaxPlayers * 56 /\ Begins(d, "DFPL")) THEN NoReading
      ELSE IF NumberAt(d, 4) # 2 \/ players > MaxPlayers THEN NoReading
      ELSE IF d.size # 14 + players * 56 THEN NoReading
      ELSE Admitted(ReadAt(d, 5, PlayerTick) \o ReadBlocks(d, 14, Player, players), "players")

DecodeWeapon(d) ==
  IF d.size # WeaponBytes \/ ~Begins(d, "DFWS") THEN NoReading
  ELSE IF NumberAt(d, 4) # 1 THEN NoReading
  ELSE Admitted(ReadAt(d, 5, WeaponReads), "weapon")

DecodeFrame(d) ==
  LET n == <<NumberAt(d, 90), NumberAt(d, 92), NumberAt(d, 94)>>
      assigned == HeaderBytes + n[1] * EntryBytes[1]
      updated == assigned + n[2] * EntryBytes[2]
  IN  IF ~(d.size \in HeaderBytes..Largest /\ Begins(d, "DFPS")) THEN NoReading
      ELSE IF NumberAt(d, 4) # 6 \/ NumberAt(d, 5) # 1 THEN NoReading
      ELSE IF d.size # updated + n[3] * EntryBytes[3] THEN NoReading
      ELSE Admitted(ReadAt(d, 6, Header) \o ReadBlocks(d, HeaderBytes, Entry[1], n[1])
                      \o ReadBlocks(d, assigned, Entry[2], n[2])
                      \o ReadBlocks(d, updated, Entry[3], n[3]), "frame")

DecodeSnapshotFrame(d) ==
  IF ~(d.size \in 39..Largest /\ Begins(d, "DFSN")) THEN NoReading
  ELSE IF NumberAt(d, 4) # 2 \/ NumberAt(d, 5) # 1 THEN NoReading
  ELSE Admitted(ReadAt(d, 6, PartHeader) \o ReadBlocks(d, 38, OneByte.payload, d.size - 38), "part")

(* A body of a payload, at the place where those before it ended. *)
ReadBody(d, before) ==
  LET p == before.end
      voxels == NumberAt(d, p + 8)
      end == p + 109 + voxels * 14
  IN  IF d.size < p + 12 \/ voxels = 0 \/ d.size < end
      THEN [before EXCEPT !.found = Append(@, NoReading)]
      ELSE [end |-> end,
            found |-> Append(before.found,
                        ReadAt(d, p, BodyName) \o ReadAt(d, p + 12, Body)
                          \o ReadBlocks(d, p + 109, Voxel, voxels))]

(* The bodies from place p on, up to the end of the payload. *)
ReadBodies(d, p, bodies) ==
  LET read[n \in 0..bodies] ==
        IF n = 0 THEN [end |-> p, found |-> <<>>] ELSE ReadBody(d, read[n - 1])
  IN  IF read[bodies].end = d.size THEN read[bodies].found ELSE <<NoReading>>

DecodePayload(d) ==
  LET voxels == NumberAt(d, 40)
      bodies == ReadBodies(d, 48 + voxels * 14, NumberAt(d, 44))
  IN  IF d.size < 48 THEN NoReading
      ELSE IF d.size < 48 + voxels * 14 THEN NoReading
      ELSE IF NoReading \in {bodies[i] : i \in DOMAIN bodies} THEN NoReading
      ELSE Admitted(ReadAt(d, 0, CheckpointHeader) \o ReadBlocks(d, 48, Voxel, voxels)
                      \o FlattenSeq(bodies), "payload")

(* pump_network looks at the first bytes; the server knows control alone. *)
ClientReads(d) ==
  CASE Begins(d, "DFWS") -> DecodeWeapon(d)
    [] Begins(d, "DFPL") -> DecodePlayers(d)
    [] Begins(d, "DFSN") -> DecodeSnapshotFrame(d)
    [] Begins(d, "DFPS") -> DecodeFrame(d)
    [] Begins(d, "DFCT") -> DecodeControl(d, FromServer)
    [] OTHER -> NoReading

ServerReads(d) == DecodeControl(d, DOMAIN ControlKinds \ FromServer)

Reads(kind, d) ==
  CASE kind = "sessionHello" -> DecodeHello(d)
    [] kind = "sessionWelcome" -> DecodeWelcome(d)
    [] kind = "payload" -> DecodePayload(d)
    [] kind \in DOMAIN ControlKinds \ FromServer -> ServerReads(d)
    [] OTHER -> ClientReads(d)

-----------------------------------------------------------------------------
(* MessagesOf there can be, with one odd field at most. *)
Counts(kind) ==
  CASE kind = "sessionHello" -> {<<n>> : n \in CredentialSizes}
    [] kind = "players" -> {<<n>> : n \in FewEntries \cup {MaxPlayers, MaxPlayers + 1}}
    [] kind = "part" -> {<<n>> : n \in FewEntries}
    [] kind = "frame" -> FewEntries \X FewEntries \X FewEntries
    [] kind = "payload" -> {<<n>> : n \in FewEntries} \cup (FewEntries \X FewEntries)
                             \cup (FewEntries \X FewEntries \X FewEntries)
    [] OTHER -> {<<>>}

Kinds == DOMAIN ControlKinds
           \cup {"sessionHello", "sessionWelcome", "players", "weapon", "frame", "part", "payload"}

IsNumber(b) == b.layout.fields[1].of \in {"DFCT", "DFQS", "DFPL", "DFWS", "DFPS", "DFSN",
                                          "u8", "u16", "u32"}

Contents(m) == SelectSeq(Write(m), LAMBDA b : ~IsNumber(b))

FieldNames(m) ==
  UNION {{b.layout.fields[i].of : i \in DOMAIN b.layout.fields} : b \in ToSet(Contents(m))}

Plain(kind) == {[kind |-> kind, counts |-> c, odd |-> ""] : c \in Counts(kind)}
MessagesOf(kind) ==
  UNION {{[m EXCEPT !.odd = name] : name \in {""} \cup FieldNames(m)} : m \in Plain(kind)}

NoMessage == [kind |-> "none", counts |-> <<>>, odd |-> ""]
NoDatagram == [at |-> <<>>, size |-> 0]

-----------------------------------------------------------------------------
(* encode_frames *)
FloorDiv(n, per) == n \div per
CeilDiv(n, per) == (n + per - 1) \div per

PerFrame(mtu, e) == (mtu - HeaderBytes) \div EntryBytes[e]

AtLeastOne(n) == IF n = 0 THEN 1 ELSE n

(* The entries of a kind that the i-th frame of this kind holds. *)
Chunk(n, per, i) == [from |-> (i - 1) * per + 1, to |-> IF i * per <= n THEN i * per ELSE n]

FragmentCount(c, mtu) ==
  AtLeastOne(CeilDiv(c[1], AtLeastOne(PerFrame(mtu, 1)))
               + CeilDiv(c[2], AtLeastOne(PerFrame(mtu, 2)))
               + CeilDiv(c[3], AtLeastOne(PerFrame(mtu, 3))))

MaxFragments == 1024

Encodable(c, mtu) ==
  /\ mtu \in HeaderBytes + EntryBytes[1]..Largest
  /\ \A e \in 1..3 : c[e] > 0 => PerFrame(mtu, e) > 0
  /\ FragmentCount(c, mtu) <= MaxFragments

FrameSizes(c, mtu) ==
  LET Only(e) == [i \in 1..CeilDiv(c[e], AtLeastOne(PerFrame(mtu, e))) |->
                    [of |-> e, chunk |-> Chunk(c[e], PerFrame(mtu, e), i)]]
  IN  IF c = <<0, 0, 0>> THEN <<[of |-> 1, chunk |-> [from |-> 1, to |-> 0]]>>
      ELSE Only(1) \o Only(2) \o Only(3)

FrameSize(f) == HeaderBytes + (f.chunk.to - f.chunk.from + 1) * EntryBytes[f.of]

(* What the authority commits: a blast of the largest radius with what it   *)
(* detaches, or the motion of all its bodies; checked at the largest size.  *)
MaxSpawned == 16384                  \* MAX_SPAWNED_BODY_VOXELS
MaxBodies == 1024                    \* MAX_ACTIVE_BODIES
MaxRadius == 16

BlastCells ==
  Cardinality({p \in (-MaxRadius..MaxRadius) \X (-MaxRadius..MaxRadius) \X (-MaxRadius..MaxRadius) :
                 p[1] * p[1] + p[2] * p[2] + p[3] * p[3] <= MaxRadius * MaxRadius})

(* The number of those cells, which TLC counts. *)
ASSUME BlastAssumption == BlastCells = 17077

Limits == <<BlastCells + MaxSpawned, MaxSpawned, MaxBodies>>
Committable(c) == Encodable(c, Largest) /\ \A e \in 1..3 : c[e] <= Limits[e]

(* Numbers around a limit and around the ends of frames. *)
Telling(e) ==
  {n \in UNION {{0, 1, Limits[e] - 1, Limits[e]}}
         \cup UNION {{PerFrame(mtu, e) - 1, PerFrame(mtu, e), PerFrame(mtu, e) + 1} : mtu \in Datagrams} :
     n \in 0..Limits[e]}

NoPacket == [counts |-> <<0, 0, 0>>, mtu |-> Largest]

-----------------------------------------------------------------------------
WireInit ==
  /\ message = NoMessage
  /\ datagram = NoDatagram
  /\ packet = NoPacket

Arrive ==
  /\ message = NoMessage /\ packet = NoPacket
  /\ \E kind \in Kinds : message' \in MessagesOf(kind)
  /\ datagram' = Spell(Write(message'))
  /\ UNCHANGED packet

(* Bytes are missing at the end, or there is one more. *)
ArriveDamaged ==
  /\ message # NoMessage /\ datagram.size = Spell(Write(message)).size
  /\ \E n \in 1..MostLost :
       \/ n <= datagram.size /\ datagram' = [datagram EXCEPT !.size = @ - n]
       \/ message.kind # "part" /\ datagram' = [datagram EXCEPT !.size = @ + n]
  /\ UNCHANGED <<message, packet>>

CommitDelta ==
  /\ message = NoMessage /\ packet = NoPacket
  /\ \E c \in Telling(1) \X Telling(2) \X Telling(3), mtu \in Datagrams :
       Committable(c) /\ packet' = [counts |-> c, mtu |-> mtu]
  /\ UNCHANGED <<message, datagram>>

WireNext == Arrive \/ ArriveDamaged \/ CommitDelta

WireSpec == WireInit /\ [][WireNext]_WireVars

-----------------------------------------------------------------------------
(* What an encoder accepts to write. *)
MayWrite(m) ==
  /\ m.odd \notin ChecksOf(m.kind)
  /\ m.kind = "sessionHello" => m.counts[1] \in MinCredential..MaxCredential
  /\ m.kind = "players" => m.counts[1] <= MaxPlayers
  /\ m.kind = "part" => m.counts[1] >= 1
  /\ m.kind = "payload" => \A b \in 2..Len(m.counts) : m.counts[b] >= 1

(* A fragment of a snapshot does not state its length; the assembler counts. *)
AsArrived ==
  IF message.kind = "part"
  THEN [message EXCEPT !.counts[1] = @ + datagram.size - Spell(Write(message)).size]
  ELSE message

(* Every datagram an encoder can write is taken by exactly the decoder of   *)
(* its kind at the other end, field for field, and that decoder refuses     *)
(* everything its encoder cannot write: cut off, longer, or with a value    *)
(* out of its range (transport.rs, secure_transport.rs, state_wire.rs,      *)
(* player_replication.rs, replication.rs, snapshot.rs: encode, decode).     *)
DatagramsReadBack ==
  message # NoMessage =>
    LET m == AsArrived
        written == IF m.counts # <<>> /\ m.counts[1] < 0 THEN FALSE
                   ELSE MayWrite(m) /\ datagram.size = Spell(Write(m)).size
    IN  Reads(message.kind, datagram) = IF written THEN Contents(m) ELSE NoReading

(* Numbers that can be sent in datagrams of a size: in frames that fit, as  *)
(* many as the header says, and with every entry in exactly one of them.   *)
CanBeSent(c, mtu) ==
  LET frames == FrameSizes(c, mtu)
      Starts(i) == i = 1 \/ frames[i].of # frames[i - 1].of
  IN  /\ Encodable(c, mtu)
      /\ Len(frames) = FragmentCount(c, mtu)
      /\ \A i \in DOMAIN frames :
           /\ FrameSize(frames[i]) <= mtu
           /\ frames[i].chunk.from = IF Starts(i) THEN 1 ELSE frames[i - 1].chunk.to + 1
           /\ i = Len(frames) \/ Starts(i + 1) => frames[i].chunk.to = c[frames[i].of]
      /\ \A e \in 1..3 : c[e] > 0 => \E i \in DOMAIN frames : frames[i].of = e

(* What the authority commits under its limits can be sent by every server  *)
(* that is deployed: in frames that fit its datagrams, none too many, and   *)
(* nothing left out; an encoding that fails would come after the commit     *)
(* (replication.rs: commit_damage, payload_fits_protocol, encode_frames;    *)
(* network.rs: broadcast).                                                  *)
CommitsCanBeSent == CanBeSent(packet.counts, packet.mtu)
=============================================================================
