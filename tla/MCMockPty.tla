------------------------------ MODULE MCMockPty ------------------------------
(* MockPty instance: two byte values, up to 3 bytes of output, reads of 2, *)
(* a buffer object of 2, two pages that differ in lines and columns.       *)
EXTENDS MockPty

MCBytes == {"a", "b"}
MCPageSizes == {Page(1, 2), Page(2, 3)}
MCPixelSizes == {Image(5, 7)}
====
