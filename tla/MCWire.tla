------------------------------- MODULE MCWire -------------------------------
(***************************************************************************)
(* Every call of rpctest and of the programs, by two threads of one        *)
(* client, replies in either order, and calls whose types are not those of *)
(* the handler.                                                            *)
(***************************************************************************)
EXTENDS Wire

CONSTANTS t1, t2

MCThread == {t1, t2}

Symmetry == Permutations(MCThread)

\* Types that differ as the library allows and no test tries: a result read
\* as another type, with success and without, and arguments that take as many
\* bytes as the handler's.
differing_types ==
    {mk(23, <<int(-1)>>, "string"), mk(23, <<int(77)>>, "string"),
     mk(25, <<int(0)>>, "int"), mk(33, <<uint(2), uint(5)>>, "int"),
     mk(23, <<str(0)>>, "int"), mk(45, <<int(3), int(-1)>>, "ull")}

MCCall == simple_tests \cup client1 \cup extent_calls \cup lock_calls
            \cup destructor_calls \cup rlock_calls \cup paxos_calls
            \cup heartbeat_calls \cup join_calls \cup members_calls \cup differing_types

ASSUME TestMarshall == testmarshall
=============================================================================
