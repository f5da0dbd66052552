----------------------------- MODULE PageSize -----------------------------
(***************************************************************************)
(* vtpty::PageSize (src/src/vtpty/PageSize.h): a page of lines x columns, *)
(* and its arithmetic with line counts and with pixel image sizes.         *)
(* Counts are non-negative here, where C++ truncating division and TLA+    *)
(* \div agree.                                                             *)
(***************************************************************************)
EXTENDS Integers

Page(lines, columns) == [lines |-> lines, columns |-> columns]
Image(width, height) == [width |-> width, height |-> height]

\* PageSize::area()
Area(p) == p.lines * p.columns

\* operator+(PageSize, LineCount), operator-(PageSize, LineCount)
PlusLines(p, n) == [p EXCEPT !.lines = @ + n]
MinusLines(p, n) == [p EXCEPT !.lines = @ - n]

\* operator*(ImageSize, PageSize): a cell's pixel size times the page
ImageTimesPage(a, b) == Image(a.width * b.columns, a.height * b.lines)

\* operator/(ImageSize, PageSize): the pixel size of one cell
ImageDivPageSwapped(a, s) == Image(a.width \div s.lines, a.height \div s.columns)
ImageDivPage(a, s) == Image(a.width \div s.columns, a.height \div s.lines)

====
