------------------------------ MODULE MCFlosis -------------------------------
EXTENDS Flosis

\* gap: the time since the frame before; garbage: what the memory of a new
\* FlowBuffer holds where finished is.
Frame(key, l4, fin, rst, len, gap, garbage) ==
    [key |-> key, l3 |-> "v4", l4 |-> l4, fin |-> fin, rst |-> rst,
     header |-> 1, len |-> len, gap |-> gap, garbage |-> garbage]

\* A connection in both directions, that ends or does not, fast or slow.
Tcp == {Frame(<<"a", "b">>, "tcp", fin, FALSE, 2, gap, garbage) :
            fin \in BOOLEAN, gap \in {0, 1}, garbage \in BOOLEAN}
        \cup {Frame(<<"b", "a">>, "tcp", FALSE, TRUE, 3, 0, FALSE)}
Udp(key) == {[Frame(key, "udp", FALSE, FALSE, 1, 0, FALSE) EXCEPT !.l3 = "v6", !.header = 2]}
Other    == {Frame(<<"a", "b">>, "icmp", FALSE, FALSE, 1, 0, FALSE)}

\* One busy queue; two queues that use the pool at the same time.
MCLoads == {<< <<Tcp, Tcp \cup Udp(<<"b", "a">>), Tcp \cup Other>>, <<>> >>,
            << <<Udp(<<"a", "b">>)>>, <<Udp(<<"c", "d">>)>> >>}
=============================================================================
