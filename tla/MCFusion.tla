------------------------------ MODULE MCFusion ------------------------------
EXTENDS Fusion

\* A number that tells the operands apart, and their order.
MCApply(op, a, b) == (a + 2 * b + (IF op = "Bits" THEN 1 ELSE 0)) % Size

\* Numbers of either size over one container, and every container and index over
\* one pair of numbers; patterns in a row where a store changes what the next finds.
Scene(k, xs, ys, ats, hs, n) ==
    [kind : k, x : xs, y : ys, at : ats, held : hs, depth : {n}]
MCScenarios ==
    Scene({"I64"}, {0, 3}, {1, 3}, {0}, {"null"}, 2)
      \cup Scene({"I32", "F32", "F64"}, {3}, {0, 1}, {0}, {"null"}, 2)
      \cup Scene({"I64"}, {1, 2}, {0}, 0 .. 2,
                  {"null", "text", "typed", "other", "generic", "struct"}, 1)
      \cup Scene({"I1", "I8", "I32", "F32", "F64"}, {1}, {0}, {1}, {"typed", "struct"}, 1)

\* A store into an array constant.
MCStores == Scene({"I64"}, {1}, {0}, {0}, {"null"}, 1)

\* A struct whose number is of another kind than the slot's declared type says.
MCFields == Scene({"I32", "F64"}, {1}, {0}, {0}, {"foreign"}, 1)

=============================================================================
