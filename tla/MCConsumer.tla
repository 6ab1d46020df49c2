---------------------------- MODULE MCConsumer ----------------------------
(***************************************************************************)
(* Values of Consumer's constants for TLC: which records of a small log    *)
(* are malformed and which rows are unwritable.                            *)
(***************************************************************************)
EXTENDS Consumer, TLC

None == {}
\* The second record of partition 0 cannot be enriched.
SecondMalformed == {<<0, 1>>}
\* The last record of partition 1 enriches but its row cannot be encoded.
LastUnwritable == {<<1, 1>>}
\* Nothing in Consumer tells one worker from another.
WorkersAlike == Permutations(Workers)
=============================================================================
