----------------------------- MODULE MCHandshake -----------------------------
(* Every configuration, and answers to a login that tell the outcomes apart. *)
EXTENDS Handshake

MCConfigs == [encryption : Levels, auth : Auths, backend : BOOLEAN,
              instance : BOOLEAN, handshake_timeout : BOOLEAN, command_timeout : BOOLEAN]

MCResponses ==
    { <<"info", "size", "done">>,
      <<"badsize", "done">>,
      <<"error1", "error2", "done">>,
      <<"route1", "error2", "done">>,
      <<"error1", "route1", "done">>,
      <<"route1", "route2", "done">>,
      <<"error2">>,
      <<"info">> }

==============================================================================
