--------------------------------- MODULE MCApi ---------------------------------
(* Api with a handful of messages and of files. *)
EXTENDS Api

Symmetric == Permutations(Requests)

Logo   == [length |-> 15, absolute |-> FALSE, parent |-> FALSE, control |-> FALSE]
Parent == [Logo EXCEPT !.parent = TRUE]

Html == [authorized |-> TRUE, json |-> TRUE, fits |-> TRUE, wellFormed |-> TRUE,
         html |-> TRUE, format |-> "", options |-> TRUE, assets |-> {}]
Form == [Html EXCEPT !.json = FALSE, !.format = "pdf-a", !.assets = {Logo}]

SomeMessages ==
  {Html, Form, [Html EXCEPT !.authorized = FALSE], [Html EXCEPT !.fits = FALSE],
   [Form EXCEPT !.fits = FALSE], [Form EXCEPT !.fits = FALSE, !.wellFormed = FALSE],
   [Form EXCEPT !.assets = {Logo, Parent}]}

\* Catalogs: on one line, as stamp_test.go has it; as Chromium writes a tagged
\* document, a dictionary inside the last entry; with entries that Stamp replaces.
Catalogs ==
  {<<Open(TRUE), Entry("Type", 0, FALSE), Entry("Pages", 2, FALSE), Close(FALSE)>>,
   <<Open(TRUE), Entry("Type", 0, FALSE), Entry("Pages", 2, TRUE),
     Entry("MarkInfo", 0, TRUE), Open(FALSE), Entry("Type", 0, FALSE),
     Entry("Marked", 0, TRUE), Close(FALSE), Close(FALSE)>>,
   <<Open(TRUE), Entry("Type", 0, TRUE), Entry("Metadata", 3, TRUE), Entry("Pages", 2, TRUE),
     Entry("OutputIntents", 0, TRUE), Close(FALSE)>>}

\* A file of three objects in an order, the catalog first by number and the page
\* tree of some size.
Printed(order, size, catalog) ==
  LET object(n, off) == CASE n = 1 -> Obj(off, 1, catalog, 60)
                          [] n = 2 -> Obj(off, 2, Stream("pages"), size)
                          [] n = 3 -> Obj(off, 3, Stream("page"), 40)
      a == object(order[1], 9)
      b == object(order[2], End(a))
      c == object(order[3], End(b))
      table   == Table(End(c), [n \in 1 .. 3 |-> (CHOOSE o \in {a, b, c} : o.num = n).off])
      trailer == Trailer(End(table), 4, 1, 0)
  IN  <<a, b, c, table, trailer, StartXref(End(trailer), table.off)>>

\* One with a cross-reference stream where the others have a table.
Compressed(file) == [file EXCEPT ![4] = [off |-> @.off, size |-> @.size, kind |-> "xrefstm"]]

SomePdfs ==
  {Printed(<<3, 2, 1>>, 40, c) : c \in Catalogs} \cup {Printed(<<1, 2, 3>>, 3000, c) : c \in Catalogs}
  \cup {Compressed(Printed(<<2, 1, 3>>, 40, CHOOSE c \in Catalogs : TRUE))}
=============================================================================
