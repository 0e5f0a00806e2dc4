----------------------------- MODULE MCPrepare -----------------------------
(* Prepare for TLC: an operator who keeps asking for the next version works    *)
(* beside one who asks for a given version, perhaps a later one or one that is  *)
(* taken or behind by then, or edits the files in place; or beside one who asks *)
(* for a candidate and one who asks for its promotion; or the latter work       *)
(* beside someone who makes a later version meanwhile, with two candidates.     *)
(* The version after the first is taken, so that the next one and the given one *)
(* are two, and both can be open.                                               *)
EXTENDS Prepare

MCFirst == <<0, 0, 1>>
MCVersions == {MCFirst, <<0, 0, 3>>, <<0, 0, 4>>}
MCReserved == {<<0, 0, 2>>}

PR(version) == [do |-> "pr", version |-> version, bump |-> "next-patch"]
Local == [do |-> "local", version |-> <<>>, bump |-> "next-patch"]

MCWants == <<{PR(<<>>)}, {PR(v) : v \in MCVersions} \cup {Local},
             {[do |-> "rc"]}, {[do |-> "stable"]}, {[do |-> "rc"]}>>
MCCrews == {{1, 2}, {1, 3, 4}, {2, 3, 4, 5}}
=============================================================================
