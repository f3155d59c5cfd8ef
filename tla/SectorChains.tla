---------------------------- MODULE SectorChains ----------------------------
(***************************************************************************)
(* Files as chains of sectors, as Dos2Files and Dos25Files read them: a    *)
(* sector has the bytes that are stored in it, the count of those in use   *)
(* and the number of the next sector, 0 at the end.                        *)
(***************************************************************************)
EXTENDS Integers, Sequences

First(S) == CHOOSE s \in S : \A t \in S : s <= t

(* The bytes of file f are <<f, 1>>, <<f, 2>>, ...; a sector nobody wrote  *)
(* holds zeroes.                                                           *)
ZERO == <<0, 0>>
Bytes(f, n) == [i \in 1 .. n |-> <<f, i>>]

(* A chain of sectors: from `start' on, until the next one is 0.  A chain  *)
(* that does not end is cut after `most' sectors.                          *)
Chain(start, link, most) ==
    LET next(c) == IF c = <<>> THEN start ELSE link[c[Len(c)]]
        longer == [c \in Seq(DOMAIN link) |->
                    IF next(c) = 0 THEN c ELSE Append(c, next(c))]
        to[n \in 0 .. most] == IF n = 0 THEN <<>> ELSE longer[to[n - 1]]
    IN  to[most]

(* The number of bytes in use in a chain, and the bytes.                   *)
CountedBytes(chain, sec) ==
    LET sum[n \in 0 .. Len(chain)] ==
            IF n = 0 THEN 0 ELSE sum[n - 1] + sec[chain[n]].count
    IN  sum[Len(chain)]

ChainBytes(chain, sec) ==
    LET used(s) == SubSeq(sec[s].bytes, 1, sec[s].count)
        read[n \in 0 .. Len(chain)] ==
            IF n = 0 THEN <<>> ELSE read[n - 1] \o used(chain[n])
    IN  read[Len(chain)]

=============================================================================
