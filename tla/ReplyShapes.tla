----------------------------- MODULE ReplyShapes -----------------------------
(* Replies for ReplyChunks: one or two blocks of at most three parts, each   *)
(* empty, short, half a message or more than one.                            *)
EXTENDS Naturals

Lengths == {0, 1, 3, 8}
Blocks ==
    {[kind |-> k, lines |-> <<<<n>>, <<m>>, <<o>>>>] :
        k \in {"fence", "quote"}, n \in Lengths, m \in Lengths, o \in Lengths}
    \cup {[kind |-> "paragraph", lines |-> <<<<n, m>>, <<o>>>>] :
            n \in Lengths, m \in Lengths, o \in Lengths}
Short == [kind |-> "paragraph", lines |-> <<<<2>>>>]
RepliesToSplit == {<<b>> : b \in Blocks} \cup {<<Short, b, Short>> : b \in Blocks}
=============================================================================
