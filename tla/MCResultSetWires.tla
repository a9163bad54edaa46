-------------------------- MODULE MCResultSetWires --------------------------
(* One or two wires with buffers of four cells.  A record of one piece,    *)
(* and one of two that fills a buffer.  With one wire a record may be      *)
(* written, the wire released and acquired again, and another be written.  *)
EXTENDS ResultSetWires

MCRecords == {<<1>>, <<2, 1>>}

MCMaxRecords == <<3, 2>>
=============================================================================
