---------------------------- MODULE MCOwnership ----------------------------
EXTENDS Ownership

\* Two numbers fit a word and two are promoted to the heap.
MCApply(op, a, b) == IF op = "LT" THEN (IF a < b THEN 1 ELSE 0) ELSE (a + b) % Size

\* The programs that set the slots up: a promoted number, then objects that
\* own one another.
Promoted == << <<"Immediate", "I64", 3>>, <<"LOCAL_SET", 1>> >>
Shared == << <<"CONST_GET", 1>>, <<"LOCAL_SET", 2>>, <<"LOCAL_GET", 2>>, <<"LOCAL_GET", 1>>,
             <<"Immediate", "I32", 2>>, <<"ARRAY_NEW", "Ref">>, <<"LOCAL_SET", 3>> >>
Keyed == << <<"CONST_GET", 1>>, <<"LOCAL_GET", 1>>, <<"Immediate", "I32", 1>>, <<"MAP_NEW", "Map">>,
            <<"LOCAL_SET", 2>>, <<"Immediate", "I64", 1>>, <<"LOCAL_GET", 2>>, <<"STRUCT_NEW", "I64">>,
            <<"LOCAL_SET", 3>> >>
Counts == << <<"LOCAL_GET", 1>>, <<"Immediate", "I64", 1>>, <<"Immediate", "I32", 2>>, <<"ARRAY_NEW", "I64">>,
             <<"LOCAL_SET", 2>>, <<"LOCAL_GET", 1>>, <<"LOCAL_GET", 2>>, <<"Immediate", "I32", 1>>,
             <<"MAP_NEW", "TMap">>, <<"LOCAL_SET", 3>> >>

MCPreludes == {Promoted, Promoted \o Shared, Promoted \o Keyed, Promoted \o Counts}

=============================================================================
