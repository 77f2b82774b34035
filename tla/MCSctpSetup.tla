---------------------------- MODULE MCSctpSetup ----------------------------
(* Instances of SctpSetup for TLC.                                        *)
EXTENDS SctpSetup

TheArms == {"w", "r"}

\* Ports and numbers whose bytes differ, so that their order matters.
Four(last, port) == V4(<<10, 0, 0, last>>, port)
Six(port)        == V6([i \in 1..16 |-> i], port, 513, 3)

Locals == {<<>>, <<Four(1, 0)>>, <<Four(1, 258)>>, <<Four(1, 0), Four(2, 0)>>,
           <<Six(258), Four(1, 258), Four(2, 258)>>, <<Four(1, 0), Six(0)>>,
           <<Four(1, 258), Six(513)>>, <<Four(1, 0), Four(2, 258)>>}
Peers  == {<<>>, <<Four(3, 3868)>>, <<Six(3868)>>, <<Four(3, 3868), Six(3868), Four(4, 3868)>>,
           <<Four(3, 3868), Four(4, 3869)>>}

Keywords == [out_streams : {0}, max_in_streams : {0, 5}, nodelay : {{}, {TRUE}},
             recv_buf : {{}, {3}}, send_buf : {{}}, autoclose : {{}}]

\* Buffer sizes of 8 and more do not fit a c_int of 4 bits.
Chains == {<<>>,
           <<<<"streams", 30, 7>>, <<"init_retransmit", 2, 500>>>>,
           <<<<"init_retransmit", 2, 0>>, <<"streams", 0, 7>>, <<"streams", 9, 0>>>>,
           <<<<"recv_buf", 9>>, <<"nodelay", TRUE>>, <<"send_buf", 4>>, <<"nodelay", FALSE>>>>,
           <<<<"recv_buf", 0>>, <<"send_buf", 15>>>>,
           <<<<"recv_buf", 16>>>>,
           <<<<"nodelay", TRUE>>, <<"autoclose", 9>>>>}
          \cup {PyConfig(kw) : kw \in Keywords}

\* Every choice of addresses, and every configuration with one of them.
TheArgs ==
  [kind : {"connect"}, local : Locals, peer : Peers, calls : {<<>>}]
  \cup [kind : {"connect"}, local : {<<>>}, peer : {<<Four(3, 3868)>>}, calls : Chains]
  \cup [kind : {"listener", "server"}, local : Locals, peer : {<<>>}, calls : {<<>>}]
  \cup [kind : {"listener", "server"}, local : {<<Four(1, 258)>>}, peer : {<<>>}, calls : Chains]

=============================================================================
