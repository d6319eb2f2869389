---------------------------- MODULE MCUdpServer ----------------------------
(* UdpServer with a datagram for each way through the parser and the tables:
   too short, a presence ping, one read as netfn 0 and command 0, which is not
   supported, a command that may be answered, Close Session, and a netfn
   without a table. For the bytes of a command: reads of a record that
   end with it and behind eight bits, and additions of the longest record that
   fits and of one byte more. *)
EXTENDS UdpServer

Plain == [from |-> 1, len |-> 30, class |-> IPMI, auth |-> 0, seq |-> 255,
          ping |-> FALSE, netfn |-> APP, cmd |-> 56, b4 |-> 0, b5 |-> 0, b46 |-> 0]
Storage(cmd, b4, b5) ==
    [Plain EXCEPT !.netfn = STORAGE, !.cmd = cmd, !.b4 = b4, !.b5 = b5]

MCDatagrams ==
    {[Plain EXCEPT !.len = 4],
     [Plain EXCEPT !.class = ASF, !.ping = TRUE],
     [Plain EXCEPT !.auth = RMCP_PLUS],
     Plain,
     [Plain EXCEPT !.from = 2, !.cmd = 60],
     [Plain EXCEPT !.netfn = 14],
     Storage(35, 0, 255), Storage(35, 1, 255), Storage(67, 15, 240),
     Storage(36, 57, 0), Storage(36, 58, 0)}
============================================================================
