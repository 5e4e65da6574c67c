---------------------------- MODULE RefinedPage ----------------------------
(***************************************************************************)
(* A page of the refined world: RefinedVolume (src/volume.rs) as a         *)
(* partition of a box into slabs along z, bands along y and runs along x,  *)
(* its edits (volume/edit.rs), its queries (volume/query.rs), its          *)
(* boundary (volume/surface.rs) and its encoding (volume/codec.rs).        *)
(*                                                                         *)
(* The code keeps the runs of a page in one sorted vector and finds slabs  *)
(* and bands by binary search; here the three levels are nested, each a    *)
(* sequence of items that end at `to` and hold a `what`.  VOLUME_EDGE may  *)
(* differ per axis.  The fingerprint of a page is a function of its runs.  *)
(* The budget of visits can refuse any edit, which changes nothing.        *)
(***************************************************************************)
EXTENDS Integers, Sequences, FiniteSets, SequencesExt

CONSTANTS
  Edge,          \* VOLUME_EDGE of each axis
  Solids,        \* materials with their integrity
  Air,           \* canonical air
  WornAir,       \* air with an integrity, which no page holds
  MaxLeaves,     \* MAX_VOLUME_LEAVES
  MaxPageEdits   \* bound of the model

Axes == 1..3
Voxels == Solids \cup {Air}

ASSUME PageAssumption ==
  /\ Edge \in [Axes -> Nat \ {0}]
  /\ Air \notin Solids /\ WornAir \notin Voxels
  /\ MaxLeaves \in Nat \ {0} /\ MaxPageEdits \in Nat

VARIABLES
  page,          \* the page
  content,       \* the material of each unit, by its edits (auxiliary)
  pageEdits,
  reader,        \* Parser: a page that is decoded
  records        \* the records it has read (auxiliary)

PageVars == <<page, content, pageEdits, reader, records>>

Corners == (0..Edge[1]) \X (0..Edge[2]) \X (0..Edge[3])
Points == (0..Edge[1] - 1) \X (0..Edge[2] - 1) \X (0..Edge[3] - 1)

Boxes ==
  UNION {{[low |-> p, high |-> c] : c \in {d \in Corners : \A a \in Axes : p[a] < d[a]}} :
           p \in Points}

Canonical(voxel) == IF voxel \in Solids THEN voxel ELSE Air

Within(p, box) == \A a \in Axes : box.low[a] <= p[a] /\ p[a] < box.high[a]

-----------------------------------------------------------------------------
(* Partitions: sequences of items [to, what]. *)
EndOf(items) == IF items = <<>> THEN 0 ELSE Last(items).to
StartAt(items, i) == IF i = 1 THEN 0 ELSE items[i - 1].to

(* A piece more, or the last item extended when it is equal. *)
JoinedNever(items, to, what) == Append(items, [to |-> to, what |-> what])
Joined(items, to, what) ==
  IF items # <<>> /\ Last(items).what = what
  THEN [items EXCEPT ![Len(items)].to = to]
  ELSE Append(items, [to |-> to, what |-> what])

Extended(items, to, what) == IF to <= EndOf(items) THEN items ELSE Joined(items, to, what)

Lesser(x, y) == IF x < y THEN x ELSE y

(* An item more, divided where the box begins and ends: the piece inside   *)
(* becomes part; an empty piece is left out.                               *)
Divided(items, item, box, a, part) ==
  Extended(Extended(Extended(items, Lesser(box.low[a], item.to), item.what),
                    Lesser(box.high[a], item.to), part),
           item.to, item.what)

(* A partition with parts in place of what the items have inside the box.  *)
Recut(items, box, a, parts) ==
  LET done[n \in 0..Len(items)] ==
        IF n = 0 THEN <<>> ELSE Divided(done[n - 1], items[n], box, a, parts[n])
  IN  done[Len(items)]

RecutBand(runs, box, voxel) == Recut(runs, box, 1, [i \in DOMAIN runs |-> Canonical(voxel)])
RecutSlab(bands, box, voxel) ==
  Recut(bands, box, 2, [i \in DOMAIN bands |-> RecutBand(bands[i].what, box, voxel)])

Uniform(voxel) ==
  <<[to |-> Edge[3], what |->
      <<[to |-> Edge[2], what |-> <<[to |-> Edge[1], what |-> Canonical(voxel)]>>]>>]>>

Replace(old, box, voxel) ==
  Recut(old, box, 3, [i \in DOMAIN old |-> RecutSlab(old[i].what, box, voxel)])

-----------------------------------------------------------------------------
(* The runs of a page in order: slab by slab, band by band. *)
Flat(seqs) ==
  LET flat[n \in 0..Len(seqs)] == IF n = 0 THEN <<>> ELSE flat[n - 1] \o seqs[n]
  IN  flat[Len(seqs)]

LeavesOfBand(runs, y, z) ==
  [r \in DOMAIN runs |-> [low |-> <<StartAt(runs, r), y.low, z.low>>,
                          high |-> <<runs[r].to, y.high, z.high>>, voxel |-> runs[r].what]]

LeavesOfSlab(bands, z) ==
  Flat([b \in DOMAIN bands |->
         LeavesOfBand(bands[b].what, [low |-> StartAt(bands, b), high |-> bands[b].to], z)])

LeafList(of) ==
  Flat([s \in DOMAIN of |->
         LeavesOfSlab(of[s].what, [low |-> StartAt(of, s), high |-> of[s].to])])

Leaves(of) == Range(LeafList(of))

Record(leaf) == [high |-> leaf.high, voxel |-> leaf.voxel]
Recorded(leaves) == [i \in DOMAIN leaves |-> Record(leaves[i])]
Encode(of) == Recorded(LeafList(of))

Units(box) == (box.high[1] - box.low[1]) * (box.high[2] - box.low[2]) * (box.high[3] - box.low[3])

UnitsAmong(leaves, voxel) ==
  LET sum[n \in 0..Len(leaves)] ==
        IF n = 0 THEN 0
        ELSE sum[n - 1] + IF leaves[n].voxel = voxel THEN Units(leaves[n]) ELSE 0
  IN  sum[Len(leaves)]

MaterialUnits(of, voxel) == UnitsAmong(LeafList(of), voxel)

(* The item of a partition that holds a coordinate. *)
Holding(items, x) == items[CHOOSE i \in DOMAIN items : StartAt(items, i) <= x /\ x < items[i].to].what

LeafAt(of, p) == Holding(Holding(Holding(of, p[3]), p[2]), p[1])

Meet(box, other) ==
  [low |-> [a \in Axes |-> IF box.low[a] > other.low[a] THEN box.low[a] ELSE other.low[a]],
   high |-> [a \in Axes |-> IF box.high[a] < other.high[a] THEN box.high[a] ELSE other.high[a]]]

(* Those of the runs that meet a box, cut to it. *)
Meets(leaf, box) ==
  \A a \in Axes : box.low[a] < leaf.high[a] /\ leaf.low[a] < box.high[a]
RunsIn(leaves, box) ==
  {[low |-> Meet(l, box).low, high |-> Meet(l, box).high, voxel |-> l.voxel] :
     l \in {leaf \in leaves : Meets(leaf, box)}}

OverlapsSolid(leaves, box) == \E leaf \in leaves : leaf.voxel \in Solids /\ Meets(leaf, box)

-----------------------------------------------------------------------------
(* Boundary rectangles: what lies beyond a face of a solid run is asked    *)
(* of the page or, at its border, of the neighbour on that side.           *)
Faces == [axis : Axes, positive : BOOLEAN]

Plane(leaf, f) == IF f.positive THEN leaf.high[f.axis] ELSE leaf.low[f.axis]
External(leaf, f) == Plane(leaf, f) = (IF f.positive THEN Edge[f.axis] ELSE 0)

LayerAtPlane(leaf, f) ==
  IF External(leaf, f) THEN (IF f.positive THEN 0 ELSE Edge[f.axis] - 1) ELSE Plane(leaf, f)
LayerBeyond(leaf, f) ==
  IF External(leaf, f) THEN (IF f.positive THEN 0 ELSE Edge[f.axis] - 1)
  ELSE IF f.positive THEN Plane(leaf, f) ELSE Plane(leaf, f) - 1

Beyond(leaf, f) ==
  [low |-> [leaf.low EXCEPT ![f.axis] = LayerBeyond(leaf, f)],
   high |-> [leaf.high EXCEPT ![f.axis] = LayerBeyond(leaf, f) + 1]]

QuadsOf(of, neighbour, leaf, f) ==
  {[plane |-> Plane(leaf, f), low |-> over.low, high |-> over.high, face |-> f,
    voxel |-> leaf.voxel, owner |-> leaf] :
      over \in {o \in RunsIn(Leaves(IF External(leaf, f) THEN neighbour[f] ELSE of), Beyond(leaf, f)) :
                  o.voxel \notin Solids}}

Surface(of, neighbour) ==
  UNION {QuadsOf(of, neighbour, leaf, f) :
           leaf \in {l \in Leaves(of) : l.voxel \in Solids}, f \in Faces}

-----------------------------------------------------------------------------
(* Parser: slabs, bands and runs that are complete, and the ends that the  *)
(* open band and slab have announced, 0 when none is open.                 *)
NewReader == [slabs |-> <<>>, bands |-> <<>>, runs |-> <<>>,
              bandEnd |-> 0, slabEnd |-> 0, refused |-> FALSE]

Malformed == [NewReader EXCEPT !.refused = TRUE]

Complete(p) == EndOf(p.slabs) = Edge[3]

AnnouncedBand(p, record) == p.bandEnd \in {0, record.high[2]}
Announced(p, record) ==
  p.bandEnd \in {0, record.high[2]} /\ p.slabEnd \in {0, record.high[3]}

Refuses(p, record) ==
  \/ Complete(p)
  \/ \E a \in Axes : record.high[a] > Edge[a]
  \/ record.high[1] <= EndOf(p.runs)
  \/ record.high[2] <= EndOf(p.bands)
  \/ record.high[3] <= EndOf(p.slabs)
  \/ ~Announced(p, record)
  \/ record.voxel \notin Voxels
  \/ p.runs # <<>> /\ Last(p.runs).what = record.voxel

RepeatsLast(items, what) == items # <<>> /\ Last(items).what = what

PushedTo(p, record) ==
  LET runs == Append(p.runs, [to |-> record.high[1], what |-> record.voxel])
      bands == Append(p.bands, [to |-> record.high[2], what |-> runs])
      slabs == Append(p.slabs, [to |-> record.high[3], what |-> bands])
  IN IF record.high[1] # Edge[1]
     THEN [p EXCEPT !.runs = runs, !.bandEnd = record.high[2], !.slabEnd = record.high[3]]
     ELSE IF RepeatsLast(p.bands, runs) THEN Malformed
     ELSE IF record.high[2] # Edge[2]
     THEN [p EXCEPT !.bands = bands, !.runs = <<>>, !.bandEnd = 0,
                    !.slabEnd = record.high[3]]
     ELSE IF RepeatsLast(p.slabs, bands) THEN Malformed
     ELSE [NewReader EXCEPT !.slabs = slabs]

Push(p, record) == IF p.refused \/ Refuses(p, record) THEN Malformed ELSE PushedTo(p, record)

ReadFrom(p, stream) ==
  LET read[n \in 0..Len(stream)] == IF n = 0 THEN p ELSE Push(read[n - 1], stream[n])
  IN  read[Len(stream)]

Decode(stream) == ReadFrom(NewReader, stream)

-----------------------------------------------------------------------------
PageInit ==
  /\ \E v \in Voxels : page = Uniform(v) /\ content = [p \in Points |-> v]
  /\ pageEdits = 0
  /\ reader = NewReader
  /\ records = <<>>

(* replace_box: the whole edit or none of it. *)
ReplaceBox ==
  /\ pageEdits < MaxPageEdits
  /\ \E box \in Boxes, v \in Voxels \cup {WornAir} :
       /\ Len(Encode(Replace(page, box, v))) <= MaxLeaves
       /\ page' = Replace(page, box, v)
       /\ content' = [p \in Points |-> IF Within(p, box) THEN Canonical(v) ELSE content[p]]
  /\ pageEdits' = pageEdits + 1
  /\ UNCHANGED <<reader, records>>

(* decode: one record of a stream that may be anything. *)
ReadRecord ==
  /\ ~reader.refused
  /\ \E record \in [high : Corners, voxel : Voxels \cup {WornAir}] :
       /\ reader' = Push(reader, record)
       /\ records' = IF reader'.refused THEN <<>> ELSE Append(records, record)
  /\ UNCHANGED <<page, content, pageEdits>>

PageNext == ReplaceBox \/ ReadRecord

PageSpec == PageInit /\ [][PageNext]_PageVars

-----------------------------------------------------------------------------
(* Consecutive ends that grow up to the edge, no two neighbours equal. *)
IsReduced(items, edge) ==
  /\ EndOf(items) = edge
  /\ \A i \in DOMAIN items : StartAt(items, i) < items[i].to
  /\ \A i \in DOMAIN items \ {1} : items[i - 1].what # items[i].what

IsCanonical(of) ==
  /\ IsReduced(of, Edge[3])
  /\ \A s \in DOMAIN of :
       /\ IsReduced(of[s].what, Edge[2])
       /\ \A b \in DOMAIN of[s].what : IsReduced(of[s].what[b].what, Edge[1])

(* Whatever edits came before, a page holds each unit's last material,     *)
(* accounts for every unit, answers every query of a box by its units, and *)
(* is the one reduced partition of its content: two pages of equal content *)
(* are equal, which is what the world compares when it checks the state    *)
(* before a change (volume/edit.rs: replace_box, Builder).                 *)
PageIsContent ==
  /\ \A p \in Points : LeafAt(page, p) = content[p]
  /\ IsCanonical(page)
  /\ \A v \in Voxels : MaterialUnits(page, v) = Cardinality({p \in Points : content[p] = v})
  /\ \A leaves \in {Leaves(page)}, solid \in {{p \in Points : content[p] \in Solids}} :
       \A box \in Boxes : OverlapsSolid(leaves, box) <=> \E p \in solid : Within(p, box)

(* A stream is decoded only if it is the encoding of the page it gives,    *)
(* and that page is canonical; and every page an edit can give decodes     *)
(* (volume/codec.rs: Parser::push).                                        *)
OnlyCanonicalDecodes ==
  /\ Complete(reader) => Encode(reader.slabs) = records /\ IsCanonical(reader.slabs)
  /\ Decode(Encode(page)) = [NewReader EXCEPT !.slabs = page]

Beside(p, f) == [p EXCEPT ![f.axis] = @ + (IF f.positive THEN 1 ELSE -1)]
Wrapped(p) == [a \in Axes |-> p[a] % Edge[a]]

CoversFace(quad, p, f) ==
  /\ quad.face = f
  /\ quad.plane = p[f.axis] + (IF f.positive THEN 1 ELSE 0)
  /\ \A a \in Axes \ {f.axis} : quad.low[a] <= p[a] /\ p[a] < quad.high[a]

(* Between a solid unit and an air unit, on the page or across its border, *)
(* there is exactly one rectangle of that unit's material, and nowhere     *)
(* else: the boundary has no hole, no sheet inside and no overlap          *)
(* (volume/surface.rs: surface).                                           *)
SurfaceIsBoundary ==
  \A border \in {Uniform(v) : v \in Voxels} \cup {page} :
    LET quads == Surface(page, [f \in Faces |-> border])
    IN \A p \in Points, f \in Faces :
         LET next == Beside(p, f)
             open == content[p] \in Solids
                     /\ LeafAt(IF next \in Points THEN page ELSE border, Wrapped(next)) \notin Solids
             over == {q \in quads : CoversFace(q, p, f)}
         IN /\ Cardinality(over) = (IF open THEN 1 ELSE 0)
            /\ \A q \in over : q.voxel = content[p]
=============================================================================
