--------------------------- MODULE MCSourceReplay ---------------------------
(* Two meters over two days of two event times; one meter has no row at one *)
(* of the times.                                                            *)
EXTENDS SourceReplay

CONSTANTS m1, m2

RankOf == [m \in Meters |-> IF m = m1 THEN 1 ELSE 2]
SmallArchive == (Meters \X (0 .. TargetEnd - 1)) \ {<<m2, 1>>}
============================================================================
