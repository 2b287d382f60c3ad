------------------------------ MODULE MCPqComm ------------------------------
(* Small instances of PqComm, with a buffer of four bytes.                  *)
EXTENDS PqComm

\* Requests shorter than the buffer, as long as it, and longer: with messages
\* inside it, across its end once or twice, and ending where it ends; and
\* requests that leave two bytes of the CMA, one, and none.
RequestsMixed == {<<3>>, <<2, 4>>, <<1, 2, 5>>, <<5>>, <<3, 6>>, <<4, 6>>, <<2, 7, 9>>, <<1, 10>>,
                  <<6, 8, 11>>, <<12>>, <<1, 12>>}

\* cf. interactive_one.c:477.  What is in the request file is consumed.
AllServed == pc = "returned" /\ ~halved => Len(served) = Len(ends)

RequestsCut == {<<3, 6>>, <<4, 6>>}

\* cf. src-backend-libpq-pqcomm.c.diff:164.  When the buffer is full it is
\* flushed to the file: no byte of a reply is written behind the CMA.
StaysInCma == send.ptr > 0 => send.base + send.ptr <= CmaEnd

RequestsFull == {<<3>>, <<10>>, <<11>>, <<12>>}
=============================================================================
