---------------------------- MODULE MCDnsService ----------------------------
(***************************************************************************)
(* An instance of DnsService with two hosts, one of which has an IPv6        *)
(* address; addresses at and beside the ends of the ranges of InetAddress.   *)
(***************************************************************************)
EXTENDS DnsService, TLC

CONSTANTS a, b

MCQuad == <<"10.0.0.0">> :> <<10, 0, 0, 0>> @@ <<"10.255.255.255">> :> <<10, 255, 255, 255>>
       @@ <<"17.31.255.255">> :> <<17, 31, 255, 255>> @@ <<"172.16.0.1">> :> <<172, 16, 0, 1>>
       @@ <<"192.169.0.0">> :> <<192, 169, 0, 0>> @@ <<"127.0.0.1">> :> <<127, 0, 0, 1>>
       @@ <<"0.0.0.0">> :> <<0, 0, 0, 0>>

MCV6Texts == {<<"2001", ":", "1", ":", ":", "1">>}

MCNumber == "0" :> 0 @@ "1" :> 1

MCAnswers ==
    a :> {<<<<"10.0.0.0">>>>, <<<<"172.16.0.1">>, <<"10.255.255.255">>, <<"17.31.255.255">>>>}
    @@ b :> {<<<<"127.0.0.1">>, <<"2001", ":", "1", ":", ":", "1">>>>, <<<<"192.169.0.0">>>>}

MCIndexes == {-1, 0, 1, 2}
=============================================================================
