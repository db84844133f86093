------------------------------- MODULE MCIpc -------------------------------
(* Requests and states of few lines. *)
EXTENDS Ipc

MCRequests == {
  <<Line("get=1", 0), Empty>>,
  <<Line("set=1", 0), Line("private_key", 1), Line("listen_port", 1), Line("public_key", 1),
    Line("allowed_ip", 1), Line("allowed_ip", 2), Line("public_key", 2), Empty>>,
  <<Line("set=1", 0), Line("fwmark", 1), Line("replace_peers", 1), Empty>>,
  <<Line("set=1", 0), Line("listen_port", 1), Line("public_key", 1), Line("rx_bytes", 1), Empty>>}

MCStates == {
  [top |-> {<<"private_key", 1>>, <<"listen_port", 1>>}, peers |-> << >>],
  [top |-> {<<"private_key", 1>>, <<"listen_port", 1>>, <<"fwmark", 1>>},
   peers |-> <<
     [public_key |-> 1, fields |-> {<<"persistent_keepalive_interval", 0>>,
                                    <<"rx_bytes", 0>>, <<"tx_bytes", 0>>}],
     [public_key |-> 2, fields |->
       {<<"preshared_key", 1>>, <<"allowed_ip", 1>>, <<"allowed_ip", 2>>, <<"endpoint", 1>>,
        <<"persistent_keepalive_interval", 1>>, <<"rx_bytes", 1>>, <<"tx_bytes", 1>>,
        <<"last_handshake_time_sec", 1>>, <<"last_handshake_time_nsec", 1>>}]>>]}
=============================================================================
