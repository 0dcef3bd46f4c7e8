------------------------------- MODULE Servers -------------------------------
(***************************************************************************)
(* The servers under TLC.  A behaviour shows one part: the web server's    *)
(* buffer of requests (WServer), its workers while they serve dynamic      *)
(* content (CgiWait), where only fork and wait matter, one of the file     *)
(* servers of chapter 33, or the datagrams of chapter 48 (Udp); the other  *)
(* parts are idle.                                                         *)
(***************************************************************************)
EXTENDS WServer

CONSTANTS CgiWorkers, CgiPids,
          LibeventClients, SelectClients, CACHE_NUM, MaxRequests, MaxVersion, MaxResets,
          Clients, Files, Short, NumReqs,
          SMALL_BUFFER_SIZE, MaxLost, MaxEarly

VARIABLES part, cpc, parent, state,
          l_conn, l_sent, l_unread, l_hungUp, l_output, l_active, l_num_reqs, l_exiting, l_pc, l_reply,
          s_conn, s_inbox, s_requests, s_pc, s_read_fd_set, s_cur, s_buffer, s_content_buffer,
          s_slot, s_file_cache, s_file_cache_tail, s_version, s_resets, s_since, s_need, s_spoiled,
          s_reply, e_conn, e_sent, e_unread, e_owner, e_evlist, e_pc, e_numReqs, e_reply, u_conn, u_sent,
          u_data_arr, u_flight, u_cq, u_numAccepts, u_numReqs, u_pc, u_reply, d_i, d_calls,
          d_pc, d_toServer, d_acks, d_client_sem, d_spc, d_buffer, d_received, d_lost, d_early,
          d_ackLost

cgiVars == <<cpc, parent, state>>
selectVars == <<s_conn, s_inbox, s_requests, s_pc, s_read_fd_set, s_cur, s_buffer,
                s_content_buffer, s_slot, s_file_cache, s_file_cache_tail, s_version, s_resets,
                s_since, s_need, s_spoiled, s_reply>>
epollVars == <<e_conn, e_sent, e_unread, e_owner, e_evlist, e_pc, e_numReqs, e_reply>>
uringVars == <<u_conn, u_sent, u_data_arr, u_flight, u_cq, u_numAccepts, u_numReqs, u_pc, u_reply>>
libeventVars == <<l_conn, l_sent, l_unread, l_hungUp, l_output, l_active, l_num_reqs, l_exiting,
                  l_pc, l_reply>>
udpVars == <<d_i, d_calls, d_pc, d_toServer, d_acks, d_client_sem, d_spc, d_buffer,
             d_received, d_lost, d_early, d_ackLost>>
fileVars == <<selectVars, epollVars, libeventVars, uringVars, udpVars>>
serverVars == <<part, vars, cgiVars, fileVars>>

Select == INSTANCE SelectServer WITH
  Clients <- SelectClients, conn <- s_conn, inbox <- s_inbox, requests <- s_requests, pc <- s_pc,
  read_fd_set <- s_read_fd_set, cur <- s_cur, buffer <- s_buffer,
  content_buffer <- s_content_buffer, slot <- s_slot, file_cache <- s_file_cache,
  file_cache_tail <- s_file_cache_tail, version <- s_version, resets <- s_resets,
  since <- s_since, need <- s_need, spoiled <- s_spoiled, reply <- s_reply

Epoll == INSTANCE EpollServer WITH
  conn <- e_conn, sent <- e_sent, unread <- e_unread, owner <- e_owner, evlist <- e_evlist,
  pc <- e_pc, numReqs <- e_numReqs, reply <- e_reply

Libevent == INSTANCE LibeventServer WITH
  Clients <- LibeventClients, conn <- l_conn, sent <- l_sent, unread <- l_unread, hungUp <- l_hungUp, output <- l_output,
  active <- l_active, num_reqs <- l_num_reqs, exiting <- l_exiting, pc <- l_pc, reply <- l_reply

Uring == INSTANCE UringServer WITH
  conn <- u_conn, sent <- u_sent, data_arr <- u_data_arr, flight <- u_flight, cq <- u_cq,
  numAccepts <- u_numAccepts, numReqs <- u_numReqs, pc <- u_pc, reply <- u_reply

Datagrams == INSTANCE Udp WITH
  i <- d_i, calls <- d_calls, pc <- d_pc, toServer <- d_toServer, acks <- d_acks,
  client_sem <- d_client_sem, spc <- d_spc, buffer <- d_buffer, received <- d_received,
  lost <- d_lost, early <- d_early, ackLost <- d_ackLost

Cgi == INSTANCE CgiWait WITH Workers <- CgiWorkers, Children <- CgiPids, pc <- cpc

\* The options matter to the buffer alone.
ServerInit ==
  /\ part \in {"buffer", "cgi", "select", "epoll", "libevent", "uring", "udp"}
  /\ Init /\ Cgi!Init
  /\ Select!Init /\ Epoll!Init /\ Libevent!Init /\ Uring!Init /\ Datagrams!Init
  /\ part # "buffer" => /\ buffers = 1 /\ schedalg = "FIFO" /\ ~hangups
                        /\ buffer[0].fd = 0 /\ Cardinality(Workers) = 1

ServeBuffer == part = "buffer" /\ Next /\ UNCHANGED <<part, cgiVars, fileVars>>
ServeDynamic == part = "cgi" /\ Cgi!Next /\ UNCHANGED <<part, vars, fileVars>>
ServeFiles ==
  /\ \/ /\ part = "select" /\ Select!Next
        /\ UNCHANGED <<epollVars, libeventVars, uringVars, udpVars>>
     \/ /\ part = "epoll" /\ Epoll!Next
        /\ UNCHANGED <<selectVars, libeventVars, uringVars, udpVars>>
     \/ /\ part = "libevent" /\ Libevent!Next
        /\ UNCHANGED <<selectVars, epollVars, uringVars, udpVars>>
     \/ /\ part = "uring" /\ Uring!Next
        /\ UNCHANGED <<selectVars, epollVars, libeventVars, udpVars>>
     \/ /\ part = "udp" /\ Datagrams!Next
        /\ UNCHANGED <<selectVars, epollVars, libeventVars, uringVars>>
  /\ UNCHANGED <<part, vars, cgiVars>>

\* The kernel runs every thread that is not blocked; CGI programs end, and a
\* worker whose wait can return does return.  Submitted operations complete
\* and timeouts fire; nothing is assumed of clients and signals.
Fairness ==
  /\ WF_vars(part = "buffer" /\ main)
  /\ \A w \in UNION Pools : WF_vars(part = "buffer" /\ w \in Workers /\ workerThread(w))
  /\ \A w \in CgiWorkers : WF_cgiVars(part = "cgi" /\ Cgi!wait(w))
  /\ \A c \in CgiPids : WF_cgiVars(part = "cgi" /\ Cgi!Exit(c))
  /\ WF_selectVars(part = "select" /\ Select!Server)
  /\ WF_epollVars(part = "epoll" /\ Epoll!Server)
  /\ WF_libeventVars(part = "libevent" /\ Libevent!Server)
  /\ WF_uringVars(part = "uring" /\ Uring!Kernel) /\ WF_uringVars(part = "uring" /\ (Uring!Handle \/ Uring!Exit))
  /\ WF_udpVars(part = "udp" /\ Datagrams!Client) /\ WF_udpVars(part = "udp" /\ Datagrams!Server)

ServerSpec == ServerInit /\ [][ServeBuffer \/ ServeDynamic \/ ServeFiles]_serverVars /\ Fairness
-----------------------------------------------------------------------------
\* With one slot or one FIFO worker, and clients that send whole requests, every
\* request in the buffer is answered and its connection closed.
AllServed == \A c \in Conns : (InTurn /\ ~hangups) => []<>Served(c)

\* There is one child for every worker of the web server that waits, whoever
\* created it; the epoll server finds input at every descriptor of its batch; an
\* open connection has one descriptor, and an element of data_arr one operation.
Accounted ==
  /\ Cgi!TypeOK /\ Cgi!OneChildEach
  /\ Select!TypeOK /\ Epoll!TypeOK /\ Epoll!NeverBlocks /\ Uring!TypeOK

\* The file servers send a client the file it asked for and nothing of another
\* request; the one with a cache a content not older than the last reset, for a
\* file whose last read did not fail.  Without losses and early timeouts the
\* datagrams bring whole messages; early timeouts repeat pieces of them and skip
\* none.
RepliesRight ==
  Select!RepliesFresh /\ Epoll!RepliesRight /\ Libevent!RepliesRight
    /\ Uring!RepliesRight /\ Datagrams!DeliveredWhole /\ Datagrams!OnlyRepeats

\* When no more requests for dynamic content come, no wait(NULL) hangs.  The file
\* servers end, or come to rest with every request answered, and the writer of
\* datagrams ends, unless an ack it waits for without a timeout is lost.
ServersRest ==
  /\ Cgi!WaitsEnd
  /\ <>[]CASE part = "select" -> Select!Finished
           [] part = "epoll" -> Epoll!Finished
           [] part = "libevent" -> Libevent!Finished
           [] part = "uring" -> Uring!Finished
           [] part = "udp" -> Datagrams!Finished
           [] OTHER -> TRUE
=============================================================================
