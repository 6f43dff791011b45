-------------------------- MODULE MCFileExecuting --------------------------
(* Values for the constants of FileExecuting. *)
EXTENDS FileExecutingProps

None  == {}
First == {1}
Both  == {1, 2}

\* The chains chain_safety looks at: the length of the input, its source, and the sink.  One
\* unit comes from each source, two go through read() or come from send(), and three make
\* a hole: one fills a pipe, one is refused, one finds the pipe read again.
Chains == {<<0, "closed", "discard">>, <<0, "closed", "manual">>, <<1, "fd", "discard">>}
              \cup {<<1, kind, "manual">> : kind \in {"auto", "transfer", "manual"}}
              \cup {<<1, "auto", "fd">>, <<2, "auto", "manual">>, <<2, "manual", "discard">>,
                    <<3, "auto", "discard">>}

\* Where a pipe may be torn, and where waitpid() and the read() of autoSink() may fail: that
\* of the first command in the chain with a descriptor as sink, that of the client's read()
\* with one unit at most.
Unfailing == \A k \in Failing : success[k] = "Error" => mState[k] # "StChildSupervise"
Bounded ==
    mState[0] # "StStart" =>
        /\ <<length, source, sink>> \in Chains
        /\ torn \subseteq (IF length > 1 THEN {} ELSE IF sink = "fd" THEN {1} ELSE {2})
        /\ Unfailing \/ (sink = "fd" /\ success[2] # "Error")
=============================================================================
