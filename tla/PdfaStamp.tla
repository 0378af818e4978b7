------------------------------- MODULE PdfaStamp -------------------------------
(***************************************************************************)
(* internal/pdfa/stamp.go: Stamp appends to a PDF an incremental update    *)
(* with XMP metadata, an ICC profile and a catalog that names both, and a  *)
(* cross-reference table of its own that chains to the old one.            *)
(*                                                                         *)
(* A file is the sequence of its parts, each with the offset at which it   *)
(* lies (off); every number a file holds about itself is such an offset.   *)
(* A dictionary is its tokens by position: entries (a key, and the object  *)
(* it refers to or 0) and the brackets of the dictionary and of those      *)
(* inside it; a token may be the first of its line (head).  Of a trailer,  *)
(* Size, Root and Prev: the new one has no other entry, and so loses the   *)
(* old one's Info and ID, which are outside the model.                     *)
(***************************************************************************)
EXTENDS Integers, Sequences, SequencesExt, FiniteSetsExt

CONSTANTS XmpSize,    \* bytes of the XMP stream object
          IccSize,    \* bytes of the ICC stream object
          TailSize    \* how much of the end findTrailer searches

\* The profile is longer than the tail, and the tail than a startxref.
ASSUME StampAssumption ==
  /\ XmpSize \in Nat \ {0} /\ IccSize \in Nat \ {0} /\ TailSize \in Nat
  /\ 25 <= TailSize /\ TailSize <= XmpSize + IccSize

Open(head)  == [kind |-> "open", head |-> head]
Close(head) == [kind |-> "close", head |-> head]
Entry(key, ref, head) == [kind |-> "entry", key |-> key, ref |-> ref, head |-> head]
IsEntry(token, key) == token.kind = "entry" /\ token.key = key

Obj(off, num, body, size) ==
  [kind |-> "obj", off |-> off, num |-> num, body |-> body, size |-> size]
Table(off, offsets) ==
  [kind |-> "xref", off |-> off, at |-> offsets, size |-> 15 + 20 * Cardinality(DOMAIN offsets)]
Trailer(off, size, root, prev) ==
  [kind |-> "trailer", off |-> off, Size |-> size, Root |-> root, Prev |-> prev, size |-> 60]
StartXref(off, to) == [kind |-> "startxref", off |-> off, to |-> to, size |-> 25]
Stream(what) == <<Entry(what, 0, TRUE)>>

End(part) == part.off + part.size
Bytes(pdf) == End(Last(pdf))
Places(pdf, kind) == {i \in 1 .. Len(pdf) : pdf[i].kind = kind}
At(pdf, offset, kind) == {i \in Places(pdf, kind) : pdf[i].off = offset}

-----------------------------------------------------------------------------
(* Reading *)

\* The last trailer of the file, and the first startxref in its tail.
Startxrefs(pdf) ==
  {i \in Places(pdf, "startxref") : pdf[i].off >= Bytes(pdf) - TailSize}
HasTrailer(pdf) == Startxrefs(pdf) # {} /\ Places(pdf, "trailer") # {}
findTrailer(pdf) == [dict |-> pdf[Max(Places(pdf, "trailer"))],
                     xrefStart |-> pdf[Min(Startxrefs(pdf))].to]

\* Only a table that begins at the offset is read, and only its own entries.
HasTable(pdf, offset) == At(pdf, offset, "xref") # {}
parseXref(pdf, offset) == pdf[CHOOSE i \in At(pdf, offset, "xref") : TRUE].at

\* The text "num 0 obj" is looked for from the offset on; an object whose number
\* ends in the digits of num has it too.
Marks(n, num) == n = num \/ \E d \in {10, 100, 1000} : num < d /\ n % d = num
Marked(pdf, offset, num) ==
  {i \in Places(pdf, "obj") : pdf[i].off >= offset /\ Marks(pdf[i].num, num)}
readObjectBody(pdf, offset, num) == pdf[Min(Marked(pdf, offset, num))].body

-----------------------------------------------------------------------------
(* The new catalog *)

\* The lines that begin with the key go, to their end.
LineStart(tokens, p) == Max({q \in DOMAIN tokens : q <= p /\ tokens[q].head})
Lines(tokens, key) == {p \in DOMAIN tokens : IsEntry(tokens[LineStart(tokens, p)], key)}
removeDictKey(tokens, key) == Restrict(tokens, DOMAIN tokens \ Lines(tokens, key))

\* The outer brackets are taken off where they are found, and what is left follows
\* a new one on its line; the two entries are on lines of their own.
Inject(tokens, xmpNum, iccNum) ==
  LET all   == DOMAIN tokens
      led   == all # {} /\ tokens[Min(all)].kind = "open"
      rest  == IF led THEN all \ {Min(all)} ELSE all
      ended == rest # {} /\ tokens[Max(rest)].kind = "close"
      inner == IF ended THEN rest \ {Max(rest)} ELSE rest
      first == IF led THEN Min(all) ELSE 0
      last  == Max(all \cup {0})
      new   == <<Entry("Metadata", xmpNum, TRUE), Entry("OutputIntents", iccNum, TRUE), Close(TRUE)>>
  IN  [p \in {first} \cup inner \cup (last + 1) .. (last + 3) |->
         CASE p = first   -> Open(TRUE)
           [] p \in inner -> [tokens[p] EXCEPT !.head = @ /\ p # Min(inner)]
           [] OTHER       -> new[p - last]]

patchCatalog(tokens, xmpNum, iccNum) ==
  Inject(removeDictKey(removeDictKey(tokens, "Metadata"), "OutputIntents"), xmpNum, iccNum)

-----------------------------------------------------------------------------
(* Stamp *)

Refused == << >>

\* What Stamp needs to find: without it, it returns an error and no file.
Stampable(pdf) ==
  /\ HasTrailer(pdf)
  /\ LET t == findTrailer(pdf) IN
       /\ HasTable(pdf, t.xrefStart)
       /\ t.dict.Root \in DOMAIN parseXref(pdf, t.xrefStart)
       /\ Marked(pdf, parseXref(pdf, t.xrefStart)[t.dict.Root], t.dict.Root) # {}

\* The update to a file of base bytes: two streams, the catalog, the table of these
\* three and the trailer that chains to the table at prev.
Update(base, prev, dict, catalog) ==
  LET xmpNum  == dict.Size
      iccNum  == dict.Size + 1
      patched == patchCatalog(catalog, xmpNum, iccNum)
      xmp  == Obj(0, xmpNum, Stream("xmp"), XmpSize)
      icc  == Obj(End(xmp), iccNum, Stream("icc"), IccSize)
      root == Obj(End(icc), dict.Root, patched, 40 * Cardinality(DOMAIN patched))
      newOffsets == [n \in {xmpNum, iccNum, dict.Root} |->
                       base + (CASE n = dict.Root -> root.off [] n = xmpNum -> xmp.off
                                 [] OTHER -> icc.off)]
      table   == Table(End(root), newOffsets)
      trailer == Trailer(End(table), dict.Size + 2, dict.Root, prev)
  IN  <<xmp, icc, root, table, trailer, StartXref(End(trailer), base + table.off)>>

Catalog(pdf) ==
  LET t == findTrailer(pdf)
  IN  readObjectBody(pdf, parseXref(pdf, t.xrefStart)[t.dict.Root], t.dict.Root)

\* What is written after the file lies after it, whatever the tables say.
Appended(pdf, update) ==
  pdf \o [i \in 1 .. Len(update) |-> [update[i] EXCEPT !.off = @ + Bytes(pdf)]]

\* Mutant: the old table is not chained to.
Unchained(pdf) ==
  IF ~Stampable(pdf) THEN Refused
  ELSE LET t == findTrailer(pdf)
       IN  Appended(pdf, Update(Bytes(pdf), 0, t.dict, Catalog(pdf)))

Stamp(pdf) ==
  IF ~Stampable(pdf) THEN Refused
  ELSE LET t == findTrailer(pdf)
       IN  Appended(pdf, Update(Bytes(pdf), t.xrefStart, t.dict, Catalog(pdf)))

-----------------------------------------------------------------------------
(* ISO 32000, for the readers of a file *)

\* A dictionary's brackets match, and the outer ones hold it all.
Depth(tokens, p) ==
  LET upto(kind) == {q \in DOMAIN tokens : q <= p /\ tokens[q].kind = kind}
  IN  Cardinality(upto("open")) - Cardinality(upto("close"))
IsDict(tokens) ==
  LET end == Max(DOMAIN tokens)
  IN  /\ DOMAIN tokens # {}
      /\ tokens[end].kind = "close" /\ Depth(tokens, end) = 0
      /\ \A p \in DOMAIN tokens \ {end} : Depth(tokens, p) > 0
Entries(tokens) == {p \in DOMAIN tokens : tokens[p].kind = "entry"}
\* The dictionary's own entries, not those of the dictionaries inside it.
Own(tokens, keys) == {p \in Entries(tokens) : Depth(tokens, p) = 1 /\ tokens[p].key \in keys}

\* The tables of a file chain from the last startxref through each trailer to the
\* table before it.
Chained(pdf) ==
  /\ pdf[Len(pdf)].kind = "startxref"
  /\ \A i \in Places(pdf, "trailer") : i > 1 /\ pdf[i - 1].kind = "xref"
  /\ \A i \in Places(pdf, "startxref") :
       i > 2 /\ pdf[i - 2].kind = "xref" /\ pdf[i].to = pdf[i - 2].off
  /\ \A i \in Places(pdf, "xref") :
       LET before == {k \in Places(pdf, "xref") : k < i}
       IN  /\ i + 2 <= Len(pdf) /\ pdf[i + 1].kind = "trailer" /\ pdf[i + 2].kind = "startxref"
           /\ pdf[i + 1].Prev = IF before = {} THEN 0 ELSE pdf[Max(before)].off

\* The newest entry of each object, and what begins where it says.
Numbers(pdf) == UNION {DOMAIN pdf[i].at : i \in Places(pdf, "xref")}
Offset(pdf, num) == pdf[Max({i \in Places(pdf, "xref") : num \in DOMAIN pdf[i].at})].at[num]
Objects(pdf, num) == {i \in At(pdf, Offset(pdf, num), "obj") : pdf[i].num = num}
Body(pdf, num) == pdf[Min(Objects(pdf, num))].body
LastTrailer(pdf) == pdf[Max(Places(pdf, "trailer"))]

Markers == {"Metadata", "OutputIntents"}
Token == [kind : {"open", "close"}, head : BOOLEAN]
           \cup [kind : {"entry"}, key : Markers \cup STRING, ref : Nat, head : BOOLEAN]
IsText(tokens) ==
  /\ IsFiniteSet(DOMAIN tokens) /\ DOMAIN tokens \subseteq Nat
  /\ \A p \in DOMAIN tokens : tokens[p] \in Token
\* The parts lie one after the other.
IsLaid(pdf) ==
  /\ pdf \in Seq({pdf[i] : i \in 1 .. Len(pdf)}) /\ pdf # << >>
  /\ \A i \in 1 .. Len(pdf) : pdf[i].off \in Nat \ {0} /\ pdf[i].size \in Nat \ {0}
  /\ \A i, k \in 1 .. Len(pdf) : i < k => End(pdf[i]) <= pdf[k].off

WellFormed(pdf) ==
  /\ IsLaid(pdf) /\ Chained(pdf)
  /\ LastTrailer(pdf).Size \in Nat /\ Numbers(pdf) \subseteq Nat
  /\ \A n \in Numbers(pdf) : n < LastTrailer(pdf).Size /\ Objects(pdf, n) # {}
  /\ LastTrailer(pdf).Root \in Numbers(pdf)
  /\ IsText(Body(pdf, LastTrailer(pdf).Root)) /\ IsDict(Body(pdf, LastTrailer(pdf).Root))

-----------------------------------------------------------------------------
(* What a stamp should do *)

\* What stays of a dictionary: all but the markers, each entry at its depth.
Kept(tokens) == {<<tokens[p].key, tokens[p].ref, Depth(tokens, p)>> :
                   p \in Entries(tokens) \ Own(tokens, Markers)}
RefersTo(pdf, tokens, key, body) ==
  /\ Cardinality(Own(tokens, {key})) = 1
  /\ \A p \in Own(tokens, {key}) : tokens[p].ref \in Numbers(pdf) /\ Body(pdf, tokens[p].ref) = body

\* new is old with PDF/A markers: every object that a reader finds in old by its number
\* it finds unchanged in new, but for the catalog, which has its entries and one
\* reference each to the metadata and to the profile.  (Nothing is said of the Info and
\* the ID that the old trailer names and the new one does not.)
Reads(new, old) ==
  LET root    == LastTrailer(new).Root
      catalog == Body(new, root)
  IN  /\ WellFormed(new) /\ root = LastTrailer(old).Root
      /\ Numbers(old) \subseteq Numbers(new)
      /\ \A n \in Numbers(old) \ {root} : Body(new, n) = Body(old, n)
      /\ Kept(catalog) = Kept(Body(old, root))
      /\ RefersTo(new, catalog, "Metadata", Stream("xmp"))
      /\ RefersTo(new, catalog, "OutputIntents", Stream("icc"))

\* What Stamp takes for granted of a catalog, for it goes by its lines: a marker that
\* is there already is alone on a line, or ends the last line, before the bracket
\* that closes the catalog, and no bracket comes right before it.
Removed(tokens) == Lines(tokens, "Metadata") \cup Lines(tokens, "OutputIntents")
Replaceable(tokens) ==
  LET end  == Max(DOMAIN tokens)
      left == DOMAIN tokens \ Removed(tokens)
  IN  /\ tokens[Min(DOMAIN tokens)].head
      /\ \A p \in Own(tokens, Markers) : tokens[p].head
      /\ \A p \in Removed(tokens) :
           p \in Own(tokens, Markers) \/ (p = end /\ tokens[Max(left)].kind # "close")

\* And of a file, for it takes the first startxref that is in the tail.
Plain(pdf) ==
  (\A i \in Startxrefs(pdf) : i = Len(pdf)) /\ Replaceable(Body(pdf, LastTrailer(pdf).Root))
=============================================================================
