----------------------------- MODULE MCWireLoop -----------------------------
(* Small instances of WireLoop: which requests the host sends.            *)
EXTENDS WireLoop

Ask(modes, ports, frames) == [mode : modes, port : ports, frame : frames]

\* Requests with at most one sync point, at their end.
Handshakes == {<<"startup">>, <<"p">>, <<"badp">>}
Simple     == {<<"Q">>, <<"X">>}
Pieces     == {<<"P">>, <<"S">>}
Batches    == {<<"P", "H">>, <<"P", "E", "S">>}
SyncLast   == Handshakes \cup Simple \cup Pieces \cup Batches

Copies     == {<<"copy", "d", "c">>, <<"copy", "f">>}

\* One client that sends its requests both ways, but its handshake in memory.
CallsWire == Ask({"wire"}, {"cma"}, SyncLast)
             \cup Ask({"wire"}, {"file"}, (SyncLast \cup Copies) \ Handshakes)

\* Requests with sync points followed by more messages.
Pipelines == {<<"Q", "Q">>, <<"P", "E", "S", "Q">>, <<"F", "d", "E">>, <<"P", "H">>,
              <<"copy", "d", "f", "Q">>, <<"copy", "S", "c", "P", "S">>}

\* A terminal in REPL mode and clients on the wire share the backend; a host
\* that polls finds no request file; some COPYs end too early, some passwords
\* and some lines of SQL come in a file.
CallsShared == Ask({"wire"}, {"cma"}, Pipelines \cup {<<"startup">>, <<"p">>, <<"X">>, <<"copy", "d">>})
               \cup Ask({"wire"}, {"file"}, {<<"P", "E", "S", "Q">>, <<"copy", "d">>, <<"badp">>})
               \cup Ask({"wire"}, {"none"}, {<<>>})
               \cup Ask({"repl"}, {"cma", "file", "memory"}, {<<"sql">>, <<"tiny">>})
               \cup Ask({"repl"}, {"file"}, {<<"psql">>})

\* A host that never calls use_wire, on a backend started with REPL=Y or not.
\* It sends files; its startup packet comes in memory or in a file, and so
\* does a line of SQL.
CallsUnannounced == Ask({"keep"}, {"cma"}, {<<"startup">>})
                    \cup Ask({"keep"}, {"file"}, SyncLast \cup Copies)
                    \cup Ask({"keep"}, {"memory"}, {<<"sql">>})
                    \cup Ask({"keep"}, {"none"}, {<<>>})

\* One message at a time.
CallsSingle == Ask({"wire"}, {"cma"}, Handshakes \cup Simple \cup Pieces)

\* What the theorems take for granted of the hosts holds of the clients, but
\* that one is refused and notified; the others go beyond it.
ASSUME HostsAssumption ==
  /\ Calls \in {CallsWire, CallsSingle} => Marked /\ OnlyClients /\ Unpipelined
  /\ Calls = CallsSingle => Announced
=============================================================================
