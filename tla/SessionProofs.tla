---------------------------- MODULE SessionProofs ---------------------------
(***************************************************************************)
(* Two conversations over sockets: logging in to a PostgreSQL server, and a*)
(* command over the management port.                                       *)
(***************************************************************************)
EXTENDS Operations, SequenceTheorems, TLAPS

(* Authentication.                                                         *)

LoginTypes ==
    /\ login \in Logins
    /\ S!TypeOK
    /\ c_ssl \in BOOLEAN /\ s_ssl \in BOOLEAN /\ admitted \in BOOLEAN

\* What is on its way to the server: with tls = on nothing but the request for TLS is in clear.
Upward ==
    {m \in [tag : {"SSLRequest", "startup", "password", "first", "proof"},
            val : {S!NotYet, "user and database", login.password, "client nonce",
                   S!Proof(login.password, "client nonce", S!ServerFirst)},
            tls : BOOLEAN] :
        login.tls = "on" /\ m.tag # "SSLRequest" => m.tls = TRUE}

\* What the server says in each message, ...
Spoken ==
    {m \in [tag : {"S", "N", "error", "auth", "ok", "continue", "final"},
            val : {S!NotYet, login.method, S!ServerFirst,
                   S!Signature(login.user_password, "client nonce", S!ServerFirst)},
            tls : BOOLEAN] :
        /\ m.tag = "auth" => m.val = login.method
        /\ m.tag = "continue" => m.val = S!ServerFirst
        /\ m.tag = "final" => m.val = S!Signature(login.user_password, "client nonce", S!ServerFirst)}

\* ... and what it says only once it has decided on TLS, or has let the user in.
Downward ==
    {m \in Spoken :
        /\ m.tag \in {"auth", "ok", "continue", "final"} => m.tls = s_ssl /\ spc # "listening"
        /\ m.tag \in {"ok", "final"} \/ (m.tag = "auth" /\ m.val = "trust") => admitted}

Wire == up \in Seq(Upward) /\ down \in Seq(Downward)

\* The user is let in last.
AdmittedLast == admitted => spc = "serving"

\* tls = on: with a CA file, and beyond the handshake with a genuine server.
InTls == {"startup", "method", "password", "password sent", "scram", "continue", "final"}

TlsFirst ==
    login.tls = "on" =>
        /\ apc \notin {"connect", "over"} => login.ca
        /\ apc \in InTls => c_ssl /\ login.genuine
        /\ result = "success" => ssl /\ login.genuine

\* The password is sent only where the server asked for it.
AskedFor ==
    /\ apc \in {"password", "password sent"} => login.method = "password"
    /\ result = "success" => apc = "over"

LoginInv ==
    /\ LoginTypes /\ Wire /\ AdmittedLast /\ TlsFirst /\ AskedFor
    /\ S!ServerKnowsPassword /\ S!SuccessIsMutual /\ S!NothingLeaks

\* What can be read has been said.
LEMMA Heard ==
    ASSUME LoginInv
    PROVE  /\ down # << >> => Head(down) \in Downward /\ Tail(down) \in Seq(Downward)
           /\ up # << >> => Head(up) \in Upward /\ Tail(up) \in Seq(Upward)
BY HeadTailProperties DEF LoginInv, Wire

LEMMA InitLogin == S!Init => LoginInv
<1>. SUFFICES ASSUME S!Init PROVE LoginInv
  OBVIOUS
<1>1. LoginTypes
  BY DEF S!Init, LoginTypes, S!TypeOK, S!NotYet
<1>2. Wire
  BY EmptySeq DEF S!Init, Wire
<1>3. AdmittedLast /\ TlsFirst /\ AskedFor /\ S!ServerKnowsPassword /\ S!SuccessIsMutual /\ S!NothingLeaks
  BY DEF S!Init, AdmittedLast, TlsFirst, AskedFor, InTls, S!ServerKnowsPassword, S!SuccessIsMutual,
         S!NothingLeaks, S!NotYet
<1>. QED
  BY <1>1, <1>2, <1>3 DEF LoginInv

\* A step of pgexporter that goes on.
LEMMA LoginGoes ==
    ASSUME LoginInv, NEW to \in {"ssl", "handshake"} \cup InTls,
           apc' = to, socket' \in BOOLEAN, UNCHANGED << login, spc, s_ssl, ssl, fd, result, admitted >>,
           apc # "over", c_ssl' \in BOOLEAN,
           up' \in Seq(Upward), down' \in Seq(Downward),
           to \in {"password", "password sent"} => login.method = "password",
           login.tls = "on" => login.ca,
           login.tls = "on" /\ to \in InTls => c_ssl' /\ login.genuine
    PROVE  LoginInv'
<1>. USE DEF LoginInv
<1>1. LoginTypes'
  BY DEF LoginTypes, S!TypeOK, InTls
<1>2. Wire'
  <2>1. Upward' = Upward /\ Downward' = Downward
    BY DEF Upward, Downward, Spoken, S!Proof, S!Signature, S!ServerFirst, S!AuthMessage, S!Salted
  <2>. QED
    BY <2>1 DEF Wire
<1>3. result # "success"
  BY DEF AskedFor
<1>4. AdmittedLast' /\ TlsFirst' /\ AskedFor'
  BY <1>3 DEF AdmittedLast, TlsFirst, AskedFor, InTls
<1>5. S!ServerKnowsPassword' /\ S!SuccessIsMutual' /\ S!NothingLeaks'
  BY <1>3 DEF S!ServerKnowsPassword, S!SuccessIsMutual, S!NothingLeaks, InTls
<1>. QED
  BY <1>1, <1>2, <1>4, <1>5

\* A step of pgexporter that ends the login.
LEMMA LoginOver ==
    ASSUME LoginInv, NEW r \in {"success", "bad password", "error"}, S!End(r),
           UNCHANGED << login, spc, s_ssl, c_ssl, admitted, up >>,
           down' \in Seq(Downward),
           r = "success" => /\ admitted /\ c_ssl = s_ssl
                            /\ login.tls = "on" => c_ssl /\ login.genuine
                            /\ login.method = "scram" => login.user_password = login.password
    PROVE  LoginInv'
<1>. USE DEF LoginInv
<1>1. LoginTypes'
  BY DEF LoginTypes, S!TypeOK, S!End
<1>2. Wire'
  <2>1. Upward' = Upward /\ Downward' = Downward
    BY DEF Upward, Downward, Spoken, S!Proof, S!Signature, S!ServerFirst, S!AuthMessage, S!Salted
  <2>. QED
    BY <2>1 DEF Wire
<1>3. AdmittedLast' /\ AskedFor'
  BY DEF AdmittedLast, AskedFor, InTls, S!End
<1>4. TlsFirst'
  BY DEF TlsFirst, InTls, S!End
<1>5. S!ServerKnowsPassword' /\ S!SuccessIsMutual'
  BY DEF S!ServerKnowsPassword, S!SuccessIsMutual, S!End
<1>6. S!NothingLeaks'
  BY DEF S!NothingLeaks, S!End
<1>. QED
  BY <1>1, <1>2, <1>3, <1>4, <1>5, <1>6

\* What pgexporter may say without further conditions.
LEMMA LoginSays ==
    ASSUME LoginInv, NEW t \in {"SSLRequest", "startup", "password", "first", "proof"},
           NEW v \in {S!NotYet, "user and database", login.password, "client nonce",
                      S!Proof(login.password, "client nonce", S!ServerFirst)},
           S!Send(t, v), t # "SSLRequest" => apc \in InTls
    PROVE  up' \in Seq(Upward)
<1>1. c_ssl \in BOOLEAN /\ (login.tls = "on" /\ t # "SSLRequest" => c_ssl)
  BY DEF LoginInv, LoginTypes, TlsFirst
<1>2. S!Msg(t, v, c_ssl) \in Upward
  BY <1>1 DEF S!Msg, Upward
<1>. QED
  BY <1>2, AppendProperties DEF LoginInv, Wire, S!Send

\* pgexporter connects, and asks for TLS.
LEMMA LoginConnects ==
    ASSUME LoginInv, S!AConnect \/ S!AConnectFails \/ S!ASsl \/ S!AHandshake \/ S!AStartup
    PROVE  LoginInv'
<1>0. Wire /\ TlsFirst /\ c_ssl \in BOOLEAN /\ s_ssl \in BOOLEAN /\ LoginTypes
  BY DEF LoginInv, LoginTypes
<1>1. CASE S!AConnect
  <2>1. CASE login.tls = "on" /\ ~ login.ca
    BY <1>0, <1>1, <2>1, LoginOver DEF S!AConnect, Wire
  <2>2. CASE ~ (login.tls = "on" /\ ~ login.ca) /\ login.tls = "off"
    BY <1>0, <1>1, <2>2, LoginGoes DEF S!AConnect, Wire, S!given, InTls
  <2>3. CASE ~ (login.tls = "on" /\ ~ login.ca) /\ login.tls # "off"
    <3>1. up' \in Seq(Upward)
      BY <1>0, <1>1, <2>3, LoginSays DEF S!AConnect
    <3>. QED
      BY <1>0, <1>1, <2>3, <3>1, LoginGoes DEF S!AConnect, Wire, S!given, InTls
  <2>. QED
    BY <2>1, <2>2, <2>3
<1>2. CASE S!AConnectFails
  BY <1>0, <1>2, LoginOver DEF S!AConnectFails, Wire
<1>3. CASE S!ASsl
  <2>1. down' \in Seq(Downward)
    BY <1>3, Heard DEF S!ASsl, S!Take
  <2>2. socket \in BOOLEAN /\ (login.tls = "on" => login.ca)
    BY <1>0, <1>3 DEF S!ASsl, TlsFirst, LoginTypes, S!TypeOK
  <2>3. CASE Head(down).tag = "S"
    BY <1>0, <1>3, <2>1, <2>2, <2>3, LoginGoes DEF S!ASsl, Wire, S!given, InTls, S!Go
  <2>4. CASE Head(down).tag # "S" /\ login.tls = "on"
    BY <1>0, <1>3, <2>1, <2>4, LoginOver DEF S!ASsl
  <2>5. CASE Head(down).tag # "S" /\ login.tls # "on"
    BY <1>0, <1>3, <2>1, <2>2, <2>5, LoginGoes DEF S!ASsl, Wire, S!given, InTls, S!Go
  <2>. QED
    BY <2>3, <2>4, <2>5
<1>4. CASE S!AHandshake
  <2>2. socket \in BOOLEAN /\ (login.tls = "on" => login.ca)
    BY <1>0, <1>4 DEF S!AHandshake, TlsFirst, LoginTypes, S!TypeOK
  <2>3. CASE login.ca => login.genuine
    BY <1>0, <1>4, <2>2, <2>3, LoginGoes DEF S!AHandshake, Wire, S!given, InTls, S!Go
  <2>4. CASE ~ (login.ca => login.genuine)
    BY <1>0, <1>4, <2>4, LoginOver DEF S!AHandshake, Wire
  <2>. QED
    BY <2>3, <2>4
<1>5. CASE S!AStartup
  <2>1. up' \in Seq(Upward)
    BY <1>5, LoginSays DEF S!AStartup, InTls
  <2>2. socket \in BOOLEAN /\ (login.tls = "on" => login.ca /\ login.genuine /\ c_ssl)
    BY <1>0, <1>5 DEF S!AStartup, TlsFirst, InTls, LoginTypes, S!TypeOK
  <2>3. apc' = "method" /\ apc # "over" /\ UNCHANGED << login, spc, s_ssl, c_ssl, socket, ssl, fd, result, admitted, down >>
    BY <1>5 DEF S!AStartup, S!Go, S!given
  <2>4. "method" \in {"ssl", "handshake"} \cup InTls
    BY DEF InTls
  <2>. QED
    BY <1>0, <2>1, <2>2, <2>3, <2>4, LoginGoes DEF Wire
<1>. QED
  BY <1>1, <1>2, <1>3, <1>4, <1>5

\* Beyond the handshake.
LEMMA Beyond ==
    ASSUME LoginInv, apc \in InTls
    PROVE  /\ socket \in BOOLEAN /\ c_ssl \in BOOLEAN
           /\ login.tls = "on" => login.ca /\ login.genuine /\ c_ssl
           /\ up \in Seq(Upward) /\ down \in Seq(Downward)
           /\ apc # "over"
BY DEF LoginInv, TlsFirst, InTls, LoginTypes, S!TypeOK, Wire

\* The request for a password, and what pgexporter answers without SCRAM.
LEMMA LoginAnswers ==
    ASSUME LoginInv, S!AMethod \/ S!APassword \/ S!APasswordOk
    PROVE  LoginInv'
<1>1. CASE S!AMethod
  <2>. DEFINE m == Head(down).val
  <2>0. apc \in InTls
    BY <1>1 DEF S!AMethod, InTls
  <2>1. down' \in Seq(Downward) /\ Head(down) \in Downward
    BY <1>1, Heard DEF S!AMethod, S!Take, S!Has
  <2>2. m = login.method /\ c_ssl = s_ssl /\ (m = "trust" => admitted)
    BY <1>1, <2>1 DEF S!AMethod, S!Has, Downward, Spoken
  <2>3. CASE m \notin S!Supported
    <3>1. S!End("error")
      BY <1>1, <2>3 DEF S!AMethod, S!Supported
    <3>. QED
      BY <1>1, <2>1, <3>1, LoginOver DEF S!AMethod
  <2>4. CASE m = "trust"
    <3>1. S!End("success")
      BY <1>1, <2>4 DEF S!AMethod, S!Supported
    <3>. QED
      BY <1>1, <2>0, <2>1, <2>2, <2>4, <3>1, Beyond, LoginOver DEF S!AMethod
  <2>5. CASE m \in {"password", "scram"}
    <3>1. S!Go(m)
      BY <1>1, <2>5 DEF S!AMethod, S!Supported
    <3>. QED
      BY <1>1, <2>0, <2>1, <2>2, <2>5, <3>1, Beyond, LoginGoes DEF S!AMethod, S!Go, S!given, InTls
  <2>. QED
    BY <2>3, <2>4, <2>5 DEF S!Supported
<1>2. CASE S!APassword
  <2>0. apc \in InTls /\ login.method = "password"
    BY <1>2 DEF S!APassword, InTls, LoginInv, AskedFor
  <2>1. up' \in Seq(Upward)
    BY <1>2, <2>0, LoginSays DEF S!APassword
  <2>. QED
    BY <1>2, <2>0, <2>1, Beyond, LoginGoes DEF S!APassword, S!Go, S!given, InTls
<1>3. CASE S!APasswordOk
  <2>0. apc \in InTls /\ login.method = "password"
    BY <1>3 DEF S!APasswordOk, InTls, LoginInv, AskedFor
  <2>1. down' \in Seq(Downward) /\ Head(down) \in Downward
    BY <1>3, Heard DEF S!APasswordOk, S!Take, S!Has
  <2>2. c_ssl = s_ssl /\ admitted
    BY <1>3, <2>1 DEF S!APasswordOk, S!Has, Downward, Spoken
  <2>. QED
    BY <1>3, <2>0, <2>1, <2>2, Beyond, LoginOver DEF S!APasswordOk
<1>. QED
  BY <1>1, <1>2, <1>3

\* SCRAM: only who knows the password can sign.
LEMMA LoginScram ==
    ASSUME LoginInv, S!AFirst \/ S!AProof \/ S!AFinal
    PROVE  LoginInv'
<1>1. CASE S!AFirst
  <2>0. apc \in InTls
    BY <1>1 DEF S!AFirst, InTls
  <2>1. CASE S!PasswordValid(login.password)
    <3>1. up' \in Seq(Upward)
      BY <1>1, <2>0, <2>1, LoginSays DEF S!AFirst
    <3>. QED
      BY <1>1, <2>0, <2>1, <3>1, Beyond, LoginGoes DEF S!AFirst, S!Go, S!given, InTls
  <2>2. CASE ~ S!PasswordValid(login.password)
    BY <1>1, <2>0, <2>2, Beyond, LoginOver DEF S!AFirst
  <2>. QED
    BY <2>1, <2>2
<1>2. CASE S!AProof
  <2>. DEFINE s == Head(down).val
  <2>0. apc \in InTls
    BY <1>2 DEF S!AProof, InTls
  <2>1. down' \in Seq(Downward) /\ Head(down) \in Downward
    BY <1>2, Heard DEF S!AProof, S!Take, S!Has
  <2>2. s = S!ServerFirst
    BY <1>2, <2>1 DEF S!AProof, S!Has, Downward, Spoken
  <2>3. CASE S!IterationsValid(s.iterations)
    <3>1. S!Send("proof", S!Proof(login.password, "client nonce", S!ServerFirst)) /\ S!Go("final")
      BY <1>2, <2>2, <2>3 DEF S!AProof
    <3>2. up' \in Seq(Upward)
      BY <2>0, <3>1, LoginSays
    <3>3. apc' = "final" /\ UNCHANGED << login, spc, s_ssl, c_ssl, socket, ssl, fd, result, admitted >>
      BY <1>2, <3>1 DEF S!AProof, S!Go, S!given
    <3>4. "final" \in {"ssl", "handshake"} \cup InTls
      BY DEF InTls
    <3>. QED
      BY <2>0, <2>1, <3>2, <3>3, <3>4, Beyond, LoginGoes
  <2>4. CASE ~ S!IterationsValid(s.iterations)
    BY <1>2, <2>0, <2>1, <2>4, Beyond, LoginOver DEF S!AProof
  <2>. QED
    BY <2>3, <2>4
<1>3. CASE S!AFinal
  <2>0. apc \in InTls
    BY <1>3 DEF S!AFinal, InTls
  <2>1. down' \in Seq(Downward) /\ Head(down) \in Downward
    BY <1>3, Heard DEF S!AFinal, S!Take, S!Has
  <2>2. /\ c_ssl = s_ssl /\ admitted
        /\ Head(down).val = S!Signature(login.user_password, "client nonce", S!ServerFirst)
    BY <1>3, <2>1 DEF S!AFinal, S!Has, Downward, Spoken
  <2>3. S!Signature(login.user_password, "client nonce", S!ServerFirst)
           = S!Signature(login.password, "client nonce", S!ServerFirst)
        => login.user_password = login.password
    BY DEF S!Signature, S!Salted
  <2>4. CASE Head(down).val = S!Signature(login.password, "client nonce", S!ServerFirst)
    <3>1. S!End("success")
      BY <1>3, <2>4 DEF S!AFinal
    <3>. QED
      BY <1>3, <2>0, <2>1, <2>2, <2>3, <2>4, <3>1, Beyond, LoginOver DEF S!AFinal
  <2>5. CASE Head(down).val # S!Signature(login.password, "client nonce", S!ServerFirst)
    <3>1. S!End("bad password")
      BY <1>3, <2>5 DEF S!AFinal
    <3>. QED
      BY <1>3, <2>1, <3>1, LoginOver DEF S!AFinal
  <2>. QED
    BY <2>4, <2>5
<1>. QED
  BY <1>1, <1>2, <1>3

\* The ways a login breaks off.
LEMMA LoginBreaks ==
    ASSUME LoginInv,
           S!AEof \/ S!ACrash \/ (apc \in DOMAIN S!Waiting /\ S!AOther(S!Waiting[apc]))
             \/ (apc = "password sent" /\ S!AOther("ok"))
    PROVE  LoginInv'
<1>1. CASE S!AEof
  BY <1>1, LoginOver DEF S!AEof, LoginInv, Wire
<1>2. ASSUME NEW t, S!AOther(t)
      PROVE  LoginInv'
  <2>1. down' \in Seq(Downward)
    BY <1>2, Heard DEF S!AOther, S!Take
  <2>. QED
    BY <1>2, <2>1, LoginOver DEF S!AOther
<1>3. CASE S!ACrash
  <2>. USE DEF LoginInv
  <2>1. result # "success"
    BY <1>3 DEF AskedFor, S!ACrash
  <2>2. LoginTypes' /\ AdmittedLast' /\ AskedFor'
    BY <1>3, <2>1 DEF S!ACrash, LoginTypes, S!TypeOK, S!given, AdmittedLast, AskedFor
  <2>3. TlsFirst'
    BY <1>3, <2>1 DEF S!ACrash, TlsFirst, S!given, InTls
  <2>4. Wire'
    <3>1. Upward' = Upward /\ Downward' = Downward
      BY <1>3 DEF S!ACrash, Upward, Downward, Spoken, S!Proof, S!Signature, S!ServerFirst, S!AuthMessage, S!Salted
    <3>. QED
      BY <1>3, <3>1 DEF Wire, S!ACrash
  <2>5. S!ServerKnowsPassword' /\ S!SuccessIsMutual' /\ S!NothingLeaks'
    BY <1>3, <2>1 DEF S!ACrash, S!given, S!ServerKnowsPassword, S!SuccessIsMutual, S!NothingLeaks
  <2>. QED
    BY <2>2, <2>3, <2>4, <2>5
<1>. QED
  BY <1>1, <1>2, <1>3

\* A step of the server: what it said before can still be said.
LEMMA ServerGoes ==
    ASSUME LoginInv, S!SLeave, NEW m, NEW n \in Seq(Upward), up' = n,
           down' = Append(down, m) \/ down' = down,
           admitted' \in BOOLEAN, s_ssl' \in BOOLEAN,
           spc' \in {"listening", "password", "scram", "md5", "gss", "ok then error", "proof",
                    "serving", "closed"},
           spc # "listening" \/ s_ssl' = s_ssl => s_ssl' = s_ssl,
           spc = "listening" \/ s_ssl' = s_ssl,
           spc # "listening" => spc' # "listening",
           admitted => admitted', admitted' => spc' = "serving",
           result = "success" => s_ssl' = s_ssl,
           down' = Append(down, m) => m \in Downward'
    PROVE  LoginInv'
<1>. USE DEF LoginInv
<1>1. LoginTypes' /\ AdmittedLast' /\ AskedFor'
  BY DEF S!SLeave, LoginTypes, S!TypeOK, S!given, AdmittedLast, AskedFor
<1>2. TlsFirst'
  BY DEF S!SLeave, TlsFirst, S!given, InTls
<1>3. Upward' = Upward /\ Spoken' = Spoken
  BY DEF S!SLeave, Upward, Spoken, S!Proof, S!Signature, S!ServerFirst, S!AuthMessage, S!Salted
<1>4. Downward \subseteq Downward'
  BY <1>3 DEF Downward, LoginTypes
<1>5. down \in Seq(Downward')
  BY <1>4, SeqMonotonic DEF Wire
<1>6. down' \in Seq(Downward')
  <2>. DEFINE d == Downward'
  <2>1. CASE down' = down
    BY <1>5, <2>1
  <2>2. CASE down' = Append(down, m)
    <3>1. m \in d /\ down \in Seq(d)
      BY <1>5, <2>2
    <3>. HIDE DEF d
    <3>2. Append(down, m) \in Seq(d)
      BY <3>1, AppendProperties
    <3>. QED
      BY <2>2, <3>2 DEF d
  <2>. QED
    BY <2>1, <2>2
<1>7. Wire'
  BY <1>3, <1>6 DEF Wire
<1>8. S!ServerKnowsPassword' /\ S!SuccessIsMutual' /\ S!NothingLeaks'
  BY DEF S!SLeave, S!given, S!ServerKnowsPassword, S!SuccessIsMutual, S!NothingLeaks
<1>. QED
  BY <1>1, <1>2, <1>7, <1>8

\* A message of the server.
LEMMA ServerSays ==
    ASSUME LoginInv, S!SLeave, s_ssl' = s_ssl,
           NEW t \in {"S", "N", "error", "auth", "ok", "continue", "final"},
           NEW v \in {S!NotYet, login.method, S!ServerFirst,
                      S!Signature(login.user_password, "client nonce", S!ServerFirst)},
           t = "auth" => v = login.method /\ (v = "trust" => admitted'),
           t = "continue" => v = S!ServerFirst,
           t = "final" => v = S!Signature(login.user_password, "client nonce", S!ServerFirst),
           t \in {"ok", "final"} => admitted',
           t \in {"auth", "ok", "continue", "final"} => spc' # "listening"
    PROVE  S!Msg(t, v, s_ssl) \in Downward'
<1>1. Spoken' = Spoken
  BY DEF S!SLeave, Spoken, S!Proof, S!Signature, S!ServerFirst, S!AuthMessage, S!Salted
<1>2. S!Msg(t, v, s_ssl) \in Spoken
  BY DEF S!Msg, Spoken, LoginInv, LoginTypes
<1>. QED
  BY <1>1, <1>2 DEF Downward, S!Msg

\* A login the server has not let in has not succeeded.
LEMMA NotYetIn ==
    ASSUME LoginInv, spc # "serving"
    PROVE  ~ admitted /\ result # "success"
BY DEF LoginInv, AdmittedLast, S!SuccessIsMutual

\* The server asks.
LEMMA ServerAsks ==
    ASSUME LoginInv, S!SSsl \/ S!SStartup \/ S!SFirst \/ S!SFails
    PROVE  LoginInv'
<1>0. /\ s_ssl \in BOOLEAN /\ admitted \in BOOLEAN /\ login \in Logins /\ up \in Seq(Upward)
      /\ spc \in {"listening", "password", "scram", "md5", "gss", "ok then error", "proof",
                    "serving", "closed"}
      /\ login.method \in S!Method /\ login.server_tls \in BOOLEAN
  BY LoginAssumption DEF LoginInv, LoginTypes, S!TypeOK, Wire
<1>1. CASE S!SSsl
  <2>. DEFINE t == IF login.server_tls THEN "S" ELSE "N"
              m == S!Msg(t, S!NotYet, FALSE)
  <2>0. /\ Tail(up) \in Seq(Upward) /\ ~ admitted /\ result # "success"
    BY <1>1, Heard, NotYetIn DEF S!SSsl, S!Asked
  <2>1. Spoken' = Spoken
    BY <1>1 DEF S!SSsl, S!SLeave, Spoken, S!Proof, S!Signature, S!ServerFirst, S!AuthMessage, S!Salted
  <2>2. m \in Downward'
    BY <1>1, <2>1 DEF Downward, Spoken, S!Msg
  <2>3. down' = Append(down, m)
    BY <1>1 DEF S!SSsl
  <2>. HIDE DEF m
  <2>. QED
    BY <1>0, <1>1, <2>0, <2>2, <2>3, ServerGoes DEF S!SSsl
<1>2. CASE S!SStartup
  <2>0. /\ Tail(up) \in Seq(Upward) /\ ~ admitted /\ result # "success"
    BY <1>2, Heard, NotYetIn DEF S!SStartup, S!Asked
  <2>1. /\ spc' \in {"password", "scram", "md5", "gss", "ok then error", "serving"}
        /\ admitted' \in BOOLEAN /\ (admitted' <=> login.method = "trust")
        /\ admitted' => spc' = "serving"
    BY <1>0, <1>2 DEF S!SStartup, S!SGo, S!Method
  <2>2. S!Msg("auth", login.method, s_ssl) \in Downward'
    BY <1>2, <2>1, ServerSays DEF S!SStartup
  <2>. QED
    BY <1>0, <1>2, <2>0, <2>1, <2>2, ServerGoes DEF S!SStartup, S!Reply
<1>3. CASE S!SFirst
  <2>0. /\ Tail(up) \in Seq(Upward) /\ ~ admitted /\ result # "success"
    BY <1>3, Heard, NotYetIn DEF S!SFirst, S!Asked
  <2>1. spc' = "proof"
    BY <1>3 DEF S!SFirst, S!SGo
  <2>2. S!Msg("continue", S!ServerFirst, s_ssl) \in Downward'
    BY <1>3, <2>1, ServerSays DEF S!SFirst
  <2>. QED
    BY <1>0, <1>3, <2>0, <2>1, <2>2, ServerGoes DEF S!SFirst, S!Reply
<1>4. CASE S!SFails
  <2>0. ~ admitted /\ result # "success"
    BY <1>4, NotYetIn DEF S!SFails
  <2>1. spc' = "closed"
    BY <1>4 DEF S!SFails, S!SGo
  <2>2. S!Msg("error", S!NotYet, s_ssl) \in Downward'
    BY <1>4, <2>1, ServerSays DEF S!SFails
  <2>3. down' = Append(down, S!Msg("error", S!NotYet, s_ssl)) \/ down' = down
    BY <1>4 DEF S!SFails, S!Reply
  <2>. QED
    BY <1>0, <1>4, <2>0, <2>1, <2>2, <2>3, ServerGoes DEF S!SFails
<1>. QED
  BY <1>1, <1>2, <1>3, <1>4

\* The server looks at the password, or at a proof that somebody has it.
LEMMA ServerJudges ==
    ASSUME LoginInv, S!SPassword \/ S!SProof
    PROVE  LoginInv'
<1>0. /\ s_ssl \in BOOLEAN /\ up \in Seq(Upward)
      /\ spc # "serving" /\ up # << >> /\ up' = Tail(up) /\ S!SLeave /\ s_ssl' = s_ssl
      /\ spc # "listening"
  BY DEF LoginInv, LoginTypes, S!TypeOK, Wire, S!SPassword, S!SProof, S!Asked
<1>1. Tail(up) \in Seq(Upward) /\ ~ admitted /\ result # "success"
  BY <1>0, Heard, NotYetIn
<1>2. admitted' \in BOOLEAN
  BY DEF S!SPassword, S!SProof
<1>3. spc' = IF admitted' THEN "serving" ELSE "closed"
  BY DEF S!SPassword, S!SProof, S!SGo
<1>4. CASE ~ admitted'
  <2>1. S!Msg("error", S!NotYet, s_ssl) \in Downward'
    BY <1>0, <1>3, <1>4, ServerSays
  <2>2. down' = Append(down, S!Msg("error", S!NotYet, s_ssl))
    BY <1>4 DEF S!SPassword, S!SProof, S!Reply
  <2>. QED
    BY <1>0, <1>1, <1>2, <1>3, <1>4, <2>1, <2>2, ServerGoes
<1>5. CASE admitted' /\ S!SPassword
  <2>1. S!Msg("ok", S!NotYet, s_ssl) \in Downward'
    BY <1>0, <1>3, <1>5, ServerSays
  <2>2. down' = Append(down, S!Msg("ok", S!NotYet, s_ssl))
    BY <1>5 DEF S!SPassword, S!Reply
  <2>. QED
    BY <1>0, <1>1, <1>2, <1>3, <1>5, <2>1, <2>2, ServerGoes
<1>6. CASE admitted' /\ S!SProof
  <2>. DEFINE v == S!Signature(login.user_password, "client nonce", S!ServerFirst)
  <2>1. S!Msg("final", v, s_ssl) \in Downward'
    BY <1>0, <1>3, <1>6, ServerSays
  <2>2. down' = Append(down, S!Msg("final", v, s_ssl))
    BY <1>6 DEF S!SProof, S!Reply
  <2>. QED
    BY <1>0, <1>1, <1>2, <1>3, <1>6, <2>1, <2>2, ServerGoes
<1>. QED
  BY <1>4, <1>5, <1>6

\* A step of another part.
LEMMA LoginQuiet ==
    ASSUME LoginInv, UNCHANGED LoginVars
    PROVE  LoginInv'
<1>. USE DEF LoginInv, LoginVars
<1>1. LoginTypes' /\ AdmittedLast' /\ AskedFor'
  BY DEF LoginTypes, S!TypeOK, AdmittedLast, AskedFor
<1>4. TlsFirst'
  BY DEF TlsFirst
<1>2. Wire'
  <2>1. Upward' = Upward /\ Downward' = Downward
    BY DEF Upward, Downward, Spoken, S!Proof, S!Signature, S!ServerFirst, S!AuthMessage, S!Salted
  <2>. QED
    BY <2>1 DEF Wire
<1>3. S!ServerKnowsPassword' /\ S!SuccessIsMutual' /\ S!NothingLeaks'
  BY DEF S!ServerKnowsPassword, S!SuccessIsMutual, S!NothingLeaks
<1>. QED
  BY <1>1, <1>2, <1>3, <1>4

LEMMA StepLogin == LoginInv /\ [Next]_vars => LoginInv'
<1>. SUFFICES ASSUME LoginInv, [Next]_vars PROVE LoginInv'
  OBVIOUS
<1>1. CASE S!Next
  BY <1>1, LoginConnects, LoginAnswers, LoginScram, LoginBreaks, ServerAsks, ServerJudges
     DEF S!Next, S!Client, S!Server
<1>2. S!Next \/ UNCHANGED LoginVars
  BY DEF Next, LoginStep, ManagementStep, LogStep, vars
<1>. QED
  BY <1>1, <1>2, LoginQuiet

\* For every TLS mode, method, password, number of iterations and failure of the connection:
\* with tls = on nothing is sent in clear (pgexporter_server_authenticate, create_ssl_client),
\* SCRAM ends well only with a server that knows the password (server_scram256), a login that
\* succeeded is one the server agrees with, and one that failed leaves no socket behind.
THEOREM LoginIsSound == Spec => []LoginSound
<1>1. LoginInv => LoginSound
  <2>. SUFFICES ASSUME LoginInv PROVE LoginSound
    OBVIOUS
  <2>1. ASSUME login.tls = "on", NEW i \in DOMAIN up, up[i].tag # "SSLRequest"
        PROVE  up[i].tls
    <3>1. up[i] \in Upward
      BY <2>1, ElementOfSeq DEF LoginInv, Wire
    <3>. QED
      BY <2>1, <3>1 DEF Upward
  <2>2. S!TlsRequired
    BY <2>1 DEF LoginInv, TlsFirst, S!TlsRequired
  <2>. QED
    BY <2>2 DEF LoginInv, LoginTypes, LoginSound
<1>2. Init => LoginInv
  BY InitLogin DEF Init
<1>. QED
  BY <1>1, <1>2, StepLogin, PTL DEF Spec

----------------------------------------------------------------------------

\* The answers to the command of s; that it went well is said of a command that was run.
Answers(s) ==
    {a \in [command : {setup[s].command}, result : M!Outcome(setup[s].command)] :
        a.result = "ok" => ran[s] = << setup[s].command >>}

\* What is on its way to the child of s.
Requests(s) ==
    {m \in [tag : {"ssl", "startup", "first", "proof", "command"}, tls : BOOLEAN,
            val : {M!None, setup[s].client_password, setup[s].command}] :
        /\ m.tag = "proof" => m.val = setup[s].client_password
        /\ m.tag = "command" => m.val = setup[s].command
        /\ m.tag = "ssl" => rpc[s] = "gone" \/ (rpc[s] = "hello" /\ cpc[s] \in {"ssl"} \cup M!ClientOver)
        /\ m.tag # "ssl" => cpc[s] \notin {"start", "ssl"}
        /\ rpc[s] \notin {"hello", "gone"} => m.tls = rtls[s]}

\* What is on its way to the client of s.
Replies(s) ==
    {m \in [tag : {"S", "N", "sasl", "continue", "final", "ok", "answer", "refused", "rest"},
            tls : BOOLEAN, val : {M!None, setup[s].admin_password} \cup Answers(s)] :
        /\ m.tag = "S" => rtls[s]
        /\ m.tag = "N" => ~ rtls[s]
        /\ m.tag \in {"S", "N"} => cpc[s] \in {"ssl"} \cup M!ClientOver
        /\ m.tag \notin {"S", "N", "rest"} => m.tls = rtls[s]
        /\ m.tag = "final" => m.val = setup[s].admin_password
        /\ m.tag = "answer" => m.val \in Answers(s)}

Places(s) ==
    /\ cpc[s] \in {"start", "ssl", "sasl", "continue", "final", "extra", "request", "answer"}
                    \cup M!ClientOver
    /\ rpc[s] \in M!Login \cup {"success", "connect", "command", "answer", "gone"}
    /\ ctls[s] \in BOOLEAN /\ rtls[s] \in BOOLEAN
    /\ conn[s] \in {"none", "queued", "main", "worker", "closed"}

Queues(s) ==
    /\ c2r[s] \in Seq(Requests(s))
    /\ r2c[s] \in Seq(Replies(s))
    /\ m2r[s] \in Seq(Answers(s))
    /\ got[s] \in Seq(Answers(s))
    /\ \A i \in 2 .. Len(r2c[s]) : r2c[s][i].tag \notin {"S", "N"}

\* Both ends agree on TLS before anything else is said.
Opening(s) ==
    /\ cpc[s] = "start" =>
         c2r[s] = << >> /\ rpc[s] \in {"hello", "gone"} /\ ctls[s] = FALSE /\ rtls[s] = FALSE
    /\ cpc[s] = "ssl" => rpc[s] \in {"hello", "startup", "gone"}
    /\ cpc[s] \notin {"start", "ssl"} \cup M!ClientOver => ctls[s] = rtls[s]
    /\ rpc[s] = "hello" =>
         /\ r2c[s] = << >> /\ rtls[s] = FALSE /\ Len(c2r[s]) <= 1
         /\ cpc[s] \in {"start", "ssl", "sasl"} \cup M!ClientOver

Authorised(s) == M!Knows(s) \/ setup[s].stranger = "server"

\* The command is passed on after the proof, and once.
Once(s) ==
    /\ r2m[s] \in {<< >>, << setup[s].command >>}
    /\ ran[s] \in {<< >>, << setup[s].command >>}
    /\ rpc[s] \notin {"answer", "gone"} => r2m[s] = << >> /\ ran[s] = << >>
    /\ r2m[s] # << >> => ran[s] = << >>
    /\ rpc[s] \in {"success", "connect", "command", "answer"} \/ r2m[s] # << >> \/ ran[s] # << >>
         => Authorised(s)
    /\ conn[s] = "worker" => ran[s] = << setup[s].command >>
    /\ cpc[s] \in {"extra", "request", "answer", "done"} =>
         M!Knows(s) \/ setup[s].stranger = "client"

SessionOk(s) == Places(s) /\ Queues(s) /\ Opening(s) /\ Once(s)

Shapes ==
    /\ setup \in Clients
    /\ mpc \in {M!Idle, << "stopped" >>} \cup ({"reading"} \X Session)
    /\ cpc = [s \in Session |-> cpc[s]] /\ rpc = [s \in Session |-> rpc[s]]
    /\ ctls = [s \in Session |-> ctls[s]] /\ rtls = [s \in Session |-> rtls[s]]
    /\ c2r = [s \in Session |-> c2r[s]] /\ r2c = [s \in Session |-> r2c[s]]
    /\ r2m = [s \in Session |-> r2m[s]] /\ m2r = [s \in Session |-> m2r[s]]
    /\ conn = [s \in Session |-> conn[s]]
    /\ ran = [s \in Session |-> ran[s]] /\ got = [s \in Session |-> got[s]]

SessionInv == Shapes /\ \A s \in Session : SessionOk(s)

\* A queue is judged by its elements.
LEMMA ByElement ==
    ASSUME NEW X, NEW Y, NEW q \in Seq(X), \A i \in 1 .. Len(q) : q[i] \in Y
    PROVE  q \in Seq(Y)
OBVIOUS

\* What is left of a queue.
LEMMA OneLess ==
    ASSUME NEW X, NEW q \in Seq(X), q # << >>
    PROVE  /\ Tail(q) \in Seq(X)
           /\ Len(q) <= 1 => Tail(q) = << >>
           /\ Len(q) > 1 => Tail(q) # << >>
<1>1. Tail(q) \in Seq(X) /\ Len(q) \in Nat /\ Len(q) # 0 /\ Len(Tail(q)) = Len(q) - 1
  BY HeadTailProperties, LenProperties, EmptySeq
<1>2. Tail(q) # << >> => Len(Tail(q)) \in Nat \ {0}
  BY <1>1, EmptySeq
<1>3. Tail(q) = << >> => Len(Tail(q)) = 0
  <2>1. Len(<< >>) = 0
    OBVIOUS
  <2>. QED
    BY <2>1, Zenon
<1>. DEFINE k == Len(q)
            j == Len(Tail(q))
<1>4. /\ k \in Nat /\ k # 0 /\ j = k - 1
      /\ Tail(q) # << >> => j \in Nat \ {0}
      /\ Tail(q) = << >> => j = 0
  BY <1>1, <1>2, <1>3
<1>. HIDE DEF k, j
<1>5. (k <= 1 => Tail(q) = << >>) /\ (k > 1 => Tail(q) # << >>)
  BY <1>4
<1>. QED
  BY <1>1, <1>5 DEF k

\* A step of one session leaves the others alone.
Elsewhere(s) ==
    \A t \in Session \ {s} :
        /\ cpc'[t] = cpc[t] /\ rpc'[t] = rpc[t] /\ ctls'[t] = ctls[t] /\ rtls'[t] = rtls[t]
        /\ c2r'[t] = c2r[t] /\ r2c'[t] = r2c[t] /\ r2m'[t] = r2m[t] /\ m2r'[t] = m2r[t]
        /\ ran'[t] = ran[t] /\ got'[t] = got[t] /\ conn'[t] \in {conn[t], "closed"}

LEMMA OthersKeep ==
    ASSUME SessionInv, NEW s \in Session, setup' = setup, Elsewhere(s), Shapes', SessionOk(s)'
    PROVE  SessionInv'
<1>1. SUFFICES ASSUME NEW t \in Session \ {s}
              PROVE  SessionOk(t)'
  BY <1>1 DEF SessionInv
<1>2. SessionOk(t)
  BY DEF SessionInv
<1>3. Answers(t)' = Answers(t)
  BY DEF Answers, Elsewhere, M!Outcome
<1>4. Requests(t)' = Requests(t)
  BY DEF Requests, Elsewhere
<1>5. Replies(t)' = Replies(t)
  BY <1>3 DEF Replies, Elsewhere
<1>6. Places(t)'
  BY <1>2 DEF SessionOk, Places, Elsewhere
<1>7. Queues(t)'
  BY <1>2, <1>3, <1>4, <1>5 DEF SessionOk, Queues, Elsewhere
<1>8. Opening(t)'
  BY <1>2 DEF SessionOk, Opening, Elsewhere
<1>9. Once(t)'
  BY <1>2 DEF SessionOk, Once, Elsewhere, Authorised, M!Knows
<1>. QED
  BY <1>6, <1>7, <1>8, <1>9 DEF SessionOk

LEMMA InitSession == M!Init => SessionInv
<1>. SUFFICES ASSUME M!Init PROVE SessionInv
  OBVIOUS
<1>1. Shapes
  BY DEF Shapes, M!Init
<1>2. ASSUME NEW s \in Session PROVE SessionOk(s)
  <2>1. Places(s) /\ Opening(s)
    BY DEF M!Init, Places, Opening, M!Login, M!ClientOver
  <2>2. Queues(s)
    BY EmptySeq DEF M!Init, Queues
  <2>3. Once(s)
    BY DEF M!Init, Once
  <2>. QED
    BY <2>1, <2>2, <2>3 DEF SessionOk
<1>. QED
  BY <1>1, <1>2 DEF SessionInv

\* A step of the client of s.
LEMMA ClientMoves ==
    ASSUME SessionInv, NEW s \in Session, NEW to, NEW c, NEW x, NEW y, NEW z,
           UNCHANGED << setup, rpc, rtls, mpc, conn, ran, r2m, m2r >>,
           cpc' = [cpc EXCEPT ![s] = to], ctls' = [ctls EXCEPT ![s] = c],
           c2r' = [c2r EXCEPT ![s] = x], r2c' = [r2c EXCEPT ![s] = y], got' = [got EXCEPT ![s] = z],
           to \in {"ssl", "sasl", "continue", "final", "extra", "request", "answer"} \cup M!ClientOver,
           c \in BOOLEAN,
           x \in Seq(Requests(s)'), y \in Seq(Replies(s)'), z \in Seq(Answers(s)),
           \A i \in 2 .. Len(y) : y[i].tag \notin {"S", "N"},
           to = "ssl" => rpc[s] \in {"hello", "startup", "gone"},
           to \notin M!ClientOver \cup {"ssl"} => c = rtls[s],
           rpc[s] = "hello" => y = << >> /\ Len(x) <= 1 /\ to \in {"ssl", "sasl"} \cup M!ClientOver,
           to \in {"extra", "request", "answer", "done"} => M!Knows(s) \/ setup[s].stranger = "client"
    PROVE  SessionInv'
<1>0. Shapes /\ SessionOk(s)
  BY DEF SessionInv
<1>1. cpc'[s] = to /\ ctls'[s] = c /\ c2r'[s] = x /\ r2c'[s] = y /\ got'[s] = z
  BY <1>0 DEF Shapes
<1>2. Elsewhere(s)
  BY DEF Elsewhere
<1>3. Shapes'
  <2>1. UNCHANGED << setup, rpc, rtls, mpc, conn, ran, r2m, m2r >>
    OBVIOUS
  <2>2. cpc' = [t \in Session |-> cpc'[t]] /\ ctls' = [t \in Session |-> ctls'[t]]
    BY <1>0 DEF Shapes
  <2>3. c2r' = [t \in Session |-> c2r'[t]] /\ r2c' = [t \in Session |-> r2c'[t]] /\ got' = [t \in Session |-> got'[t]]
    BY <1>0 DEF Shapes
  <2>. QED
    BY <1>0, <2>1, <2>2, <2>3 DEF Shapes
<1>4. Answers(s)' = Answers(s)
  BY DEF Answers, M!Outcome
<1>5. Places(s)'
  BY <1>0, <1>1 DEF SessionOk, Places
<1>6. Queues(s)'
  BY <1>0, <1>1, <1>4 DEF SessionOk, Queues
<1>7. Opening(s)'
  BY <1>0, <1>1 DEF SessionOk, Opening, M!ClientOver
<1>8. Once(s)'
  BY <1>0, <1>1 DEF SessionOk, Once, Authorised, M!Knows
<1>. QED
  BY <1>2, <1>3, <1>5, <1>6, <1>7, <1>8, OthersKeep DEF SessionOk

\* What a client that goes on, or ends, has sent and not read stays what it was.
LEMMA ClientKeeps ==
    ASSUME SessionInv, NEW s \in Session, NEW to,
           UNCHANGED << setup, rpc, rtls, ran >>, cpc' = [cpc EXCEPT ![s] = to],
           to \in M!ClientOver \/ (cpc[s] \notin {"start", "ssl"} \cup M!ClientOver /\ to \notin {"start", "ssl"})
    PROVE  Requests(s) \subseteq Requests(s)' /\ Replies(s) \subseteq Replies(s)'
<1>1. cpc'[s] = to /\ to \notin {"start", "ssl"}
  BY DEF SessionInv, Shapes, M!ClientOver
<1>2. Answers(s)' = Answers(s)
  BY DEF Answers, M!Outcome
<1>3. Requests(s) \subseteq Requests(s)'
  BY <1>1 DEF Requests
<1>4. Replies(s) \subseteq Replies(s)'
  BY <1>1, <1>2 DEF Replies
<1>. QED
  BY <1>3, <1>4

\* What is known of s.
LEMMA Known ==
    ASSUME SessionInv, NEW s \in Session
    PROVE  /\ Places(s) /\ Queues(s) /\ Opening(s) /\ Once(s)
           /\ cpc = [cpc EXCEPT ![s] = cpc[s]] /\ ctls = [ctls EXCEPT ![s] = ctls[s]]
           /\ c2r = [c2r EXCEPT ![s] = c2r[s]] /\ r2c = [r2c EXCEPT ![s] = r2c[s]]
           /\ got = [got EXCEPT ![s] = got[s]]
           /\ c2r[s] # << >> => Head(c2r[s]) \in Requests(s) /\ Tail(c2r[s]) \in Seq(Requests(s))
           /\ r2c[s] # << >> => Head(r2c[s]) \in Replies(s) /\ Tail(r2c[s]) \in Seq(Replies(s))
<1>1. Places(s) /\ Queues(s) /\ Opening(s) /\ Once(s) /\ Shapes
  BY DEF SessionInv, SessionOk
<1>2. /\ c2r[s] # << >> => Head(c2r[s]) \in Requests(s) /\ Tail(c2r[s]) \in Seq(Requests(s))
      /\ r2c[s] # << >> => Head(r2c[s]) \in Replies(s) /\ Tail(r2c[s]) \in Seq(Replies(s))
  BY <1>1, HeadTailProperties DEF Queues
<1>. QED
  BY <1>1, <1>2 DEF Shapes

\* The client of s speaks.
LEMMA ClientSays ==
    ASSUME SessionInv, NEW s \in Session, NEW to,
           UNCHANGED << setup, rpc, rtls, ran >>, cpc' = [cpc EXCEPT ![s] = to],
           NEW t \in {"ssl", "startup", "first", "proof", "command"},
           NEW v \in {M!None, setup[s].client_password, setup[s].command},
           NEW e \in BOOLEAN,
           t = "proof" => v = setup[s].client_password,
           t = "command" => v = setup[s].command,
           t = "ssl" => to = "ssl" /\ rpc[s] \in {"hello", "gone"},
           t # "ssl" => to \notin {"start", "ssl"},
           rpc[s] \notin {"hello", "gone"} => e = rtls[s]
    PROVE  M!Msg(t, e, v) \in Requests(s)'
<1>1. cpc'[s] = to
  BY DEF SessionInv, Shapes
<1>. QED
  BY <1>1 DEF Requests, M!Msg, M!ClientOver

\* The client asks for TLS, or starts.
LEMMA ClientOpens ==
    ASSUME SessionInv, NEW s \in Session, M!ClientHello(s) \/ M!ClientStartup(s)
    PROVE  SessionInv'
<1>0. /\ Places(s) /\ Queues(s) /\ Opening(s) /\ Once(s)
      /\ ctls = [ctls EXCEPT ![s] = ctls[s]] /\ r2c = [r2c EXCEPT ![s] = r2c[s]]
      /\ got = [got EXCEPT ![s] = got[s]]
      /\ UNCHANGED << setup, rpc, rtls, mpc, conn, ran, r2m, m2r, got >>
  BY Known DEF M!ClientHello, M!ClientStartup, M!child, M!main
<1>1. CASE M!ClientHello(s)
  <2>1. PICK to \in {"ssl", "sasl"}, t \in {"ssl", "startup"} :
           /\ to = "ssl" <=> t = "ssl"
           /\ cpc' = [cpc EXCEPT ![s] = to]
           /\ M!ToChild(s, t, M!None)
           /\ UNCHANGED << ctls, r2c >>
           /\ cpc[s] = "start"
    BY <1>1 DEF M!ClientHello, M!ClientAt
  <2>2. c2r[s] = << >> /\ rpc[s] \in {"hello", "gone"} /\ ctls[s] = FALSE /\ rtls[s] = FALSE
    BY <1>0, <2>1 DEF Opening
  <2>3. M!Msg(t, FALSE, M!None) \in Requests(s)'
    BY <1>0, <2>1, <2>2, ClientSays
  <2>. DEFINE x == Append(c2r[s], M!Msg(t, FALSE, M!None))
  <2>4. c2r' = [c2r EXCEPT ![s] = x]
    <3>1. ctls'[s] = FALSE
      BY <2>1, <2>2
    <3>. QED
      BY <2>1, <3>1 DEF M!ToChild
  <2>5. x \in Seq(Requests(s)') /\ Len(x) <= 1
    <3>1. c2r[s] \in Seq(Requests(s)') /\ Len(c2r[s]) = 0
      BY <2>2, EmptySeq
    <3>. DEFINE m == M!Msg(t, FALSE, M!None)
    <3>. HIDE DEF m
    <3>2. m \in Requests(s)'
      BY <2>3 DEF m
    <3>3. Append(c2r[s], m) \in Seq(Requests(s)') /\ Len(Append(c2r[s], m)) <= 1
      BY <3>1, <3>2, AppendProperties
    <3>. QED
      BY <3>3 DEF m
  <2>. HIDE DEF x
  <2>6. cpc'[s] = to
    BY <2>1 DEF SessionInv, Shapes
  <2>7. Answers(s)' = Answers(s)
    BY <1>0 DEF Answers, M!Outcome
  <2>8. Replies(s) \subseteq Replies(s)'
    BY <1>0, <2>1, <2>6, <2>7 DEF Replies, M!ClientOver
  <2>9. r2c[s] \in Seq(Replies(s)')
    BY <1>0, <2>8, SeqMonotonic DEF Queues
  <2>10. /\ got[s] \in Seq(Answers(s)) /\ \A i \in 2 .. Len(r2c[s]) : r2c[s][i].tag \notin {"S", "N"}
         /\ rpc[s] = "hello" => r2c[s] = << >>
    BY <1>0 DEF Queues, Opening
  <2>. QED
    BY <1>0, <2>1, <2>2, <2>4, <2>5, <2>9, <2>10, ClientMoves DEF M!ClientOver
<1>2. CASE M!ClientStartup(s)
  <2>. DEFINE x == Append(c2r[s], M!Msg("startup", rtls[s], M!None))
              y == Tail(r2c[s])
  <2>1. /\ r2c[s] # << >> /\ Head(r2c[s]).tag \in {"S", "N"}
        /\ cpc[s] = "ssl" /\ cpc' = [cpc EXCEPT ![s] = "sasl"]
        /\ ctls' = [ctls EXCEPT ![s] = M!ClientHas(s, "S")]
        /\ r2c' = [r2c EXCEPT ![s] = y]
    BY <1>2 DEF M!ClientStartup, M!ClientAt, M!ClientHas, M!ClientReads
  <2>2. M!ClientHas(s, "S") \in BOOLEAN /\ (M!ClientHas(s, "S") <=> Head(r2c[s]).tag = "S")
    BY <2>1 DEF M!ClientHas
  <2>4. Head(r2c[s]) \in Replies(s)
    BY <2>1, Known
  <2>5. M!ClientHas(s, "S") = rtls[s] /\ rpc[s] # "hello" /\ rpc[s] \in {"startup", "gone"} /\ rtls[s] \in BOOLEAN
    BY <1>0, <2>1, <2>2, <2>4 DEF Replies, Opening, Places
  <2>15. ctls' = [ctls EXCEPT ![s] = rtls[s]] /\ ctls'[s] = rtls[s]
    BY <2>1, <2>5 DEF SessionInv, Shapes
  <2>3. c2r' = [c2r EXCEPT ![s] = x]
    BY <1>2, <2>15 DEF M!ClientStartup, M!ToChild
  <2>6. M!Msg("startup", rtls[s], M!None) \in Requests(s)'
    <3>1. cpc'[s] = "sasl"
      BY <2>1 DEF SessionInv, Shapes
    <3>. QED
      BY <1>0, <2>5, <3>1 DEF Requests, M!Msg, M!ClientOver
  <2>7. cpc'[s] = "sasl"
    BY <2>1 DEF SessionInv, Shapes
  <2>8. Requests(s) \subseteq Requests(s)'
    BY <1>0, <2>5, <2>7 DEF Requests
  <2>9. x \in Seq(Requests(s)')
    BY <1>0, <2>6, <2>8, SeqMonotonic, AppendProperties DEF Queues
  <2>10. y \in Seq(Replies(s)) /\ (\A i \in 1 .. Len(y) : y[i].tag \notin {"S", "N"} /\ y[i] \in Replies(s))
    <3>1. r2c[s] \in Seq(Replies(s)) /\ \A i \in 2 .. Len(r2c[s]) : r2c[s][i].tag \notin {"S", "N"}
      BY <1>0 DEF Queues
    <3>2. y \in Seq(Replies(s)) /\ Len(y) = Len(r2c[s]) - 1 /\ \A i \in 1 .. Len(y) : y[i] = r2c[s][i + 1]
      BY <2>1, <3>1, HeadTailProperties
    <3>3. \A i \in 1 .. Len(y) : y[i] \in Replies(s)
      BY <3>2, ElementOfSeq
    <3>. QED
      BY <3>1, <3>2, <3>3, LenProperties
  <2>11. Answers(s)' = Answers(s)
    BY <1>0 DEF Answers, M!Outcome
  <2>12. \A m \in Replies(s) : m.tag \notin {"S", "N"} => m \in Replies(s)'
    BY <1>0, <2>11 DEF Replies
  <2>13. y \in Seq(Replies(s)')
    BY <2>10, <2>12, ByElement
  <2>14. got[s] \in Seq(Answers(s)) /\ \A i \in 2 .. Len(y) : y[i].tag \notin {"S", "N"}
    <3>1. Len(y) \in Nat
      BY <2>10, LenProperties
    <3>. QED
      BY <1>0, <2>10, <3>1 DEF Queues
  <2>. HIDE DEF x, y
  <2>. QED
    BY <1>0, <2>1, <2>3, <2>5, <2>15, <2>9, <2>13, <2>14, ClientMoves DEF M!ClientOver
<1>. QED
  BY <1>1, <1>2

\* The client of s reads what there is, and goes on or ends.
LEMMA ClientListens ==
    ASSUME SessionInv, NEW s \in Session, NEW to, NEW y \in Seq(Replies(s)), NEW z \in Seq(Answers(s)),
           UNCHANGED << setup, rpc, rtls, mpc, conn, ran, c2r, r2m, m2r, ctls >>,
           cpc' = [cpc EXCEPT ![s] = to],
           r2c' = [r2c EXCEPT ![s] = y], got' = [got EXCEPT ![s] = z],
           \A i \in 2 .. Len(y) : y[i].tag \notin {"S", "N"},
           \/ to \in {"bad password", "failed"} /\ (rpc[s] = "hello" => y = << >>)
           \/ /\ cpc[s] \notin {"start", "ssl"} \cup M!ClientOver
              /\ to \in {"extra", "request", "done"} /\ rpc[s] # "hello"
              /\ M!Knows(s) \/ setup[s].stranger = "client"
    PROVE  SessionInv'
<1>0. Places(s) /\ Queues(s) /\ Opening(s) /\ ctls = [ctls EXCEPT ![s] = ctls[s]] /\ c2r = [c2r EXCEPT ![s] = c2r[s]]
  BY Known
<1>1. \/ to \in M!ClientOver
      \/ cpc[s] \notin {"start", "ssl"} \cup M!ClientOver /\ to \notin {"start", "ssl"}
  BY DEF M!ClientOver
<1>2. Requests(s) \subseteq Requests(s)' /\ Replies(s) \subseteq Replies(s)'
  BY <1>1, ClientKeeps
<1>3. c2r[s] \in Seq(Requests(s)') /\ y \in Seq(Replies(s)')
  BY <1>0, <1>2, SeqMonotonic DEF Queues
<1>4. ctls[s] \in BOOLEAN /\ (to \notin M!ClientOver \cup {"ssl"} => ctls[s] = rtls[s])
  BY <1>0 DEF Places, Opening, M!ClientOver
<1>5. rpc[s] = "hello" => y = << >> /\ Len(c2r[s]) <= 1 /\ to \in M!ClientOver
  BY <1>0 DEF Opening, M!ClientOver
<1>6. to \in {"ssl", "sasl", "continue", "final", "extra", "request", "answer"} \cup M!ClientOver /\ to # "ssl"
  BY DEF M!ClientOver
<1>7. to \in {"extra", "request", "answer", "done"} => M!Knows(s) \/ setup[s].stranger = "client"
  OBVIOUS
<1>. QED
  BY <1>0, <1>3, <1>4, <1>5, <1>6, <1>7, ClientMoves

\* The client of s speaks, once both ends agree on TLS.
LEMMA ClientTalks ==
    ASSUME SessionInv, NEW s \in Session, NEW to \in {"continue", "final", "answer"}, NEW y \in Seq(Replies(s)),
           NEW t \in {"first", "proof", "command"},
           NEW v \in {M!None, setup[s].client_password, setup[s].command},
           t = "proof" => v = setup[s].client_password,
           t = "command" => v = setup[s].command,
           UNCHANGED << setup, rpc, rtls, mpc, conn, ran, r2m, m2r, ctls, got >>,
           cpc[s] \in {"sasl", "continue", "request"}, cpc' = [cpc EXCEPT ![s] = to],
           M!ToChild(s, t, v), r2c' = [r2c EXCEPT ![s] = y],
           \A i \in 2 .. Len(y) : y[i].tag \notin {"S", "N"},
           rpc[s] # "hello", to = "answer" => M!Knows(s) \/ setup[s].stranger = "client"
    PROVE  SessionInv'
<1>. DEFINE m == M!Msg(t, ctls[s], v)
<1>0. /\ Places(s) /\ Queues(s) /\ Opening(s)
      /\ ctls = [ctls EXCEPT ![s] = ctls[s]] /\ got = [got EXCEPT ![s] = got[s]]
  BY Known
<1>1. cpc[s] \notin {"start", "ssl"} \cup M!ClientOver /\ to \notin {"start", "ssl"} /\ to \notin M!ClientOver
  BY DEF M!ClientOver
<1>2. Requests(s) \subseteq Requests(s)' /\ Replies(s) \subseteq Replies(s)'
  BY <1>1, ClientKeeps
<1>3. ctls[s] \in BOOLEAN /\ ctls[s] = rtls[s]
  BY <1>0, <1>1 DEF Places, Opening
<1>4. cpc'[s] = to
  BY DEF SessionInv, Shapes
<1>5. m \in Requests(s)'
  BY <1>1, <1>3, <1>4 DEF Requests, M!Msg
<1>6. c2r' = [c2r EXCEPT ![s] = Append(c2r[s], m)]
  BY DEF M!ToChild
<1>. HIDE DEF m
<1>7. Append(c2r[s], m) \in Seq(Requests(s)') /\ y \in Seq(Replies(s)')
  BY <1>0, <1>2, <1>5, SeqMonotonic, AppendProperties DEF Queues
<1>8. got[s] \in Seq(Answers(s)) /\ to # "ssl"
  BY <1>0 DEF Queues
<1>9. to \in {"ssl", "sasl", "continue", "final", "extra", "request", "answer"} \cup M!ClientOver
  OBVIOUS
<1>10. got' = [got EXCEPT ![s] = got[s]] /\ ctls' = [ctls EXCEPT ![s] = ctls[s]]
  BY <1>0
<1>11. to \in {"extra", "request", "answer", "done"} => M!Knows(s) \/ setup[s].stranger = "client"
  OBVIOUS
<1>. QED
  BY <1>3, <1>6, <1>7, <1>8, <1>9, <1>10, <1>11, ClientMoves

\* What is left of the replies.
LEMMA RestOfReplies ==
    ASSUME SessionInv, NEW s \in Session, r2c[s] # << >>
    PROVE  /\ Head(r2c[s]) \in Replies(s) /\ Tail(r2c[s]) \in Seq(Replies(s)) /\ rpc[s] # "hello"
           /\ \A i \in 1 .. Len(Tail(r2c[s])) : Tail(r2c[s])[i].tag \notin {"S", "N"}
           /\ \A i \in 2 .. Len(Tail(r2c[s])) : Tail(r2c[s])[i].tag \notin {"S", "N"}
<1>1. /\ r2c[s] \in Seq(Replies(s)) /\ rpc[s] # "hello"
      /\ \A i \in 2 .. Len(r2c[s]) : r2c[s][i].tag \notin {"S", "N"}
  BY Known DEF Queues, Opening
<1>2. /\ Head(r2c[s]) \in Replies(s) /\ Tail(r2c[s]) \in Seq(Replies(s))
      /\ Len(Tail(r2c[s])) = Len(r2c[s]) - 1 /\ Len(r2c[s]) \in Nat
      /\ \A i \in 1 .. Len(Tail(r2c[s])) : Tail(r2c[s])[i] = r2c[s][i + 1]
  BY <1>1, HeadTailProperties, LenProperties
<1>3. \A i \in 1 .. Len(Tail(r2c[s])) : Tail(r2c[s])[i].tag \notin {"S", "N"}
  <2>. TAKE i \in 1 .. Len(Tail(r2c[s]))
  <2>1. i + 1 \in 2 .. Len(r2c[s])
    BY <1>2
  <2>. QED
    BY <1>1, <1>2, <2>1
<1>. QED
  BY <1>1, <1>2, <1>3

LEMMA ClientLogsIn ==
    ASSUME SessionInv, NEW s \in Session, M!ClientFirst(s) \/ M!ClientProof(s) \/ M!ClientCommand(s)
    PROVE  SessionInv'
<1>0. UNCHANGED << setup, rpc, rtls, mpc, conn, ran, r2m, m2r, ctls, got >>
  BY DEF M!ClientFirst, M!ClientProof, M!ClientCommand, M!child, M!main
<1>1. CASE M!ClientFirst(s)
  BY <1>0, <1>1, RestOfReplies, ClientTalks
     DEF M!ClientFirst, M!ClientAt, M!ClientHas, M!ClientReads
<1>2. CASE M!ClientProof(s)
  BY <1>0, <1>2, RestOfReplies, ClientTalks
     DEF M!ClientProof, M!ClientAt, M!ClientHas, M!ClientReads
<1>3. CASE M!ClientCommand(s)
  <2>1. /\ cpc[s] = "request" /\ cpc' = [cpc EXCEPT ![s] = "answer"]
        /\ M!ToChild(s, "command", setup[s].command) /\ r2c' = r2c
    BY <1>3 DEF M!ClientCommand, M!ClientAt
  <2>2. /\ r2c[s] \in Seq(Replies(s)) /\ r2c = [r2c EXCEPT ![s] = r2c[s]]
        /\ \A i \in 2 .. Len(r2c[s]) : r2c[s][i].tag \notin {"S", "N"}
        /\ M!Knows(s) \/ setup[s].stranger = "client"
        /\ rpc[s] # "hello"
    BY <2>1, Known DEF Queues, Once, Opening, M!ClientOver
  <2>. QED
    BY <1>0, <2>1, <2>2, ClientTalks
<1>. QED
  BY <1>1, <1>2, <1>3

\* The client reads the server's proof, and then the answer to its command.
LEMMA ClientIsServed ==
    ASSUME SessionInv, NEW s \in Session, M!ClientFinal(s) \/ M!ClientExtra(s) \/ M!ClientAnswer(s)
    PROVE  SessionInv'
<1>0. UNCHANGED << setup, rpc, rtls, mpc, conn, ran, c2r, r2m, m2r, ctls >> /\ r2c[s] # << >>
  BY DEF M!ClientFinal, M!ClientExtra, M!ClientAnswer, M!child, M!main, M!ClientHas
<1>1. /\ got[s] \in Seq(Answers(s)) /\ got = [got EXCEPT ![s] = got[s]]
      /\ r2c[s] \in Seq(Replies(s))
  BY Known DEF Queues
<1>2. CASE M!ClientFinal(s)
  <2>0. /\ cpc[s] = "final" /\ cpc[s] \notin {"start", "ssl"} \cup M!ClientOver
        /\ Head(r2c[s]).tag = "final" /\ got' = [got EXCEPT ![s] = got[s]]
    BY <1>1, <1>2 DEF M!ClientFinal, M!ClientHas, M!ClientOver
  <2>1. M!SignatureMatches(s) => M!Knows(s) \/ setup[s].stranger = "client"
    <3>1. Head(r2c[s]) \in Replies(s)
      BY <1>0, RestOfReplies
    <3>2. Head(r2c[s]).val = setup[s].admin_password
      BY <2>0, <3>1 DEF Replies
    <3>. QED
      BY <3>2 DEF M!SignatureMatches, M!Knows
  <2>2. CASE ~ M!SignatureMatches(s) /\ cpc' = [cpc EXCEPT ![s] = "bad password"] /\ M!ClientReads(s)
    BY <1>0, <1>1, <2>0, <2>2, RestOfReplies, ClientListens DEF M!ClientReads
  <2>3. CASE M!SignatureMatches(s) /\ cpc' = [cpc EXCEPT ![s] = "extra"] /\ M!ClientReads(s)
    BY <1>0, <1>1, <2>0, <2>1, <2>3, RestOfReplies, ClientListens DEF M!ClientReads
  <2>4. ASSUME M!SignatureMatches(s), cpc' = [cpc EXCEPT ![s] = "request"], ~ ctls[s], Len(r2c[s]) > 1,
               NEW rest \in {<< >>, << M!Msg("rest", FALSE, M!None) >>},
               r2c' = [r2c EXCEPT ![s] = rest \o Tail(Tail(r2c[s]))]
        PROVE  SessionInv'
    <3>1. Tail(r2c[s]) \in Seq(Replies(s)) /\ Tail(r2c[s]) # << >>
      BY <1>0, <1>1, <2>4, OneLess
    <3>2. Tail(Tail(r2c[s])) \in Seq(Replies(s))
      BY <3>1, HeadTailProperties
    <3>3. M!Msg("rest", FALSE, M!None) \in Replies(s)
      BY DEF M!Msg, Replies
    <3>4. rest \in Seq(Replies(s))
      <4>. DEFINE m == M!Msg("rest", FALSE, M!None)
      <4>. HIDE DEF m
      <4>1. m \in Replies(s)
        BY <3>3 DEF m
      <4>2. << >> \in Seq(Replies(s)) /\ << m >> \in Seq(Replies(s))
        BY <4>1
      <4>. QED
        BY <4>2 DEF m
    <3>. DEFINE y == rest \o Tail(Tail(r2c[s]))
    <3>5. y \in Seq(Replies(s))
      BY <3>2, <3>4, ConcatProperties
    <3>. HIDE DEF y
    <3>6. \A i \in 2 .. Len(y) : y[i].tag \notin {"S", "N"}
      <4>. TAKE i \in 2 .. Len(y)
      <4>1. i \in 1 .. Len(y)
        BY <3>5, LenProperties
      <4>2. y[i] \in Replies(s)
        BY <3>5, <4>1, ElementOfSeq
      <4>. QED
        BY <2>0, <4>2 DEF Replies
    <3>7. r2c' = [r2c EXCEPT ![s] = y] /\ rpc[s] # "hello"
      BY <1>0, <2>4, RestOfReplies DEF y
    <3>. QED
      BY <1>0, <1>1, <2>0, <2>1, <2>4, <3>5, <3>6, <3>7, ClientListens
  <2>. QED
    BY <1>2, <2>2, <2>3, <2>4 DEF M!ClientFinal
<1>3. CASE M!ClientExtra(s)
  <2>1. /\ cpc[s] = "extra" /\ cpc' = [cpc EXCEPT ![s] = "request"]
        /\ got' = got /\ r2c' = [r2c EXCEPT ![s] = Tail(r2c[s])]
    BY <1>3 DEF M!ClientExtra, M!ClientAt, M!ClientReads
  <2>2. /\ M!Knows(s) \/ setup[s].stranger = "client"
        /\ cpc[s] \notin {"start", "ssl"} \cup M!ClientOver
    BY <2>1, Known DEF Once, M!ClientOver
  <2>. QED
    BY <1>0, <1>1, <2>1, <2>2, RestOfReplies, ClientListens
<1>4. CASE M!ClientAnswer(s)
  <2>. DEFINE z == Append(got[s], Head(r2c[s]).val)
  <2>1. /\ cpc[s] = "answer" /\ cpc' = [cpc EXCEPT ![s] = "done"]
        /\ got' = [got EXCEPT ![s] = z] /\ r2c' = [r2c EXCEPT ![s] = Tail(r2c[s])]
        /\ Head(r2c[s]).tag = "answer"
    BY <1>4 DEF M!ClientAnswer, M!ClientAt, M!ClientReads, M!ClientHas
  <2>2. /\ M!Knows(s) \/ setup[s].stranger = "client"
        /\ cpc[s] \notin {"start", "ssl"} \cup M!ClientOver
    BY <2>1, Known DEF Once, M!ClientOver
  <2>3. Head(r2c[s]) \in Replies(s)
    BY <1>0, RestOfReplies
  <2>4. Head(r2c[s]).val \in Answers(s)
    BY <2>1, <2>3 DEF Replies
  <2>5. z \in Seq(Answers(s))
    BY <1>1, <2>4, AppendProperties
  <2>. HIDE DEF z
  <2>. QED
    BY <1>0, <2>1, <2>2, <2>5, RestOfReplies, ClientListens
<1>. QED
  BY <1>2, <1>3, <1>4

\* The client ends before it has an answer.
LEMMA ClientStops ==
    ASSUME SessionInv, NEW s \in Session, M!ClientFails(s) \/ M!ClientLeaves(s)
    PROVE  SessionInv'
<1>0. /\ UNCHANGED << setup, rpc, rtls, mpc, conn, ran, c2r, r2c, r2m, m2r, ctls, got >>
      /\ cpc' = [cpc EXCEPT ![s] = "failed"]
  BY DEF M!ClientFails, M!ClientLeaves, M!child, M!main, M!wires
<1>1. /\ got[s] \in Seq(Answers(s)) /\ got = [got EXCEPT ![s] = got[s]]
      /\ r2c[s] \in Seq(Replies(s)) /\ r2c = [r2c EXCEPT ![s] = r2c[s]]
      /\ \A i \in 2 .. Len(r2c[s]) : r2c[s][i].tag \notin {"S", "N"}
      /\ rpc[s] = "hello" => r2c[s] = << >>
  BY Known DEF Queues, Opening
<1>. QED
  BY <1>0, <1>1, ClientListens

\* A step of the child of s.
LEMMA ChildMoves ==
    ASSUME SessionInv, NEW s \in Session, NEW to, NEW e \in BOOLEAN, NEW x, NEW y, NEW z, NEW n, NEW k,
           UNCHANGED << setup, cpc, ctls, got, mpc, ran >>,
           rpc' = [rpc EXCEPT ![s] = to], rtls' = [rtls EXCEPT ![s] = e],
           c2r' = [c2r EXCEPT ![s] = x], r2c' = [r2c EXCEPT ![s] = y],
           r2m' = [r2m EXCEPT ![s] = n], m2r' = [m2r EXCEPT ![s] = z], conn' = [conn EXCEPT ![s] = k],
           to \in {"startup", "first", "proof", "success", "connect", "command", "answer", "gone"},
           x \in Seq(Requests(s)'), y \in Seq(Replies(s)'), z \in Seq(Answers(s)),
           \A i \in 2 .. Len(y) : y[i].tag \notin {"S", "N"},
           k \in {conn[s], "queued"},
           n \in {<< >>, << setup[s].command >>}, to \notin {"answer", "gone"} => n = << >>,
           rpc[s] \notin {"answer", "gone"} \/ n = r2m[s],
           cpc[s] = "start" => x = << >> /\ to = "gone" /\ e = FALSE,
           cpc[s] = "ssl" => to \in {"startup", "gone"},
           cpc[s] \notin {"start", "ssl"} \cup M!ClientOver => ctls[s] = e,
           to \in {"success", "connect", "command", "answer"} => Authorised(s),
           n # << >> => Authorised(s),
           rpc[s] # "gone", rpc[s] = "answer" => to = "gone"
    PROVE  SessionInv'
<1>0. Shapes /\ Places(s) /\ Queues(s) /\ Opening(s) /\ Once(s)
  BY Known DEF SessionInv
<1>1. /\ rpc'[s] = to /\ rtls'[s] = e /\ c2r'[s] = x /\ r2c'[s] = y /\ m2r'[s] = z /\ r2m'[s] = n
      /\ conn'[s] = k
  BY <1>0 DEF Shapes
<1>2. Elsewhere(s)
  BY DEF Elsewhere
<1>3. Shapes'
  <2>1. UNCHANGED << setup, cpc, ctls, got, mpc, ran >>
    OBVIOUS
  <2>2. rpc' = [t \in Session |-> rpc'[t]] /\ rtls' = [t \in Session |-> rtls'[t]]
    BY <1>0 DEF Shapes
  <2>3. c2r' = [t \in Session |-> c2r'[t]] /\ r2c' = [t \in Session |-> r2c'[t]] /\ conn' = [t \in Session |-> conn'[t]]
    BY <1>0 DEF Shapes
  <2>4. r2m' = [t \in Session |-> r2m'[t]] /\ m2r' = [t \in Session |-> m2r'[t]]
    BY <1>0 DEF Shapes
  <2>. QED
    BY <1>0, <2>1, <2>2, <2>3, <2>4 DEF Shapes
<1>4. Answers(s)' = Answers(s)
  BY DEF Answers, M!Outcome
<1>5. Places(s)'
  BY <1>0, <1>1 DEF Places, M!Login
<1>6. Queues(s)'
  BY <1>0, <1>1, <1>4 DEF Queues
<1>7. Opening(s)'
  BY <1>0, <1>1 DEF Opening, M!ClientOver
<1>8. Once(s)'
  BY <1>0, <1>1 DEF Once, Authorised, M!Knows
<1>. QED
  BY <1>2, <1>3, <1>5, <1>6, <1>7, <1>8, OthersKeep DEF SessionOk

\* What was said before a child went on stays what it was.
LEMMA ChildKeeps ==
    ASSUME SessionInv, NEW s \in Session, NEW to,
           UNCHANGED << setup, cpc, ran, rtls >>, rpc' = [rpc EXCEPT ![s] = to],
           rpc[s] # "gone", to = "gone" \/ rpc[s] # "hello"
    PROVE  Requests(s) \subseteq Requests(s)' /\ Replies(s) \subseteq Replies(s)'
<1>1. rpc'[s] = to
  BY DEF SessionInv, Shapes
<1>2. Answers(s)' = Answers(s)
  BY DEF Answers, M!Outcome
<1>3. Requests(s) \subseteq Requests(s)'
  BY <1>1 DEF Requests
<1>4. Replies(s) \subseteq Replies(s)'
  BY <1>1, <1>2 DEF Replies
<1>. QED
  BY <1>3, <1>4

\* A message more at the end.
LEMMA OneMoreReply ==
    ASSUME NEW X, NEW q \in Seq(X), NEW m \in X, m.tag \notin {"S", "N"},
           \A i \in 2 .. Len(q) : q[i].tag \notin {"S", "N"}
    PROVE  Append(q, m) \in Seq(X) /\ \A i \in 2 .. Len(Append(q, m)) : Append(q, m)[i].tag \notin {"S", "N"}
<1>1. /\ Append(q, m) \in Seq(X) /\ Len(Append(q, m)) = Len(q) + 1 /\ Len(q) \in Nat
      /\ \A i \in 1 .. Len(q) : Append(q, m)[i] = q[i]
      /\ Append(q, m)[Len(q) + 1] = m
  BY AppendProperties, LenProperties
<1>2. ASSUME NEW i \in 2 .. Len(Append(q, m)) PROVE Append(q, m)[i].tag \notin {"S", "N"}
  <2>1. CASE i = Len(q) + 1
    BY <1>1, <2>1
  <2>2. CASE i # Len(q) + 1
    BY <1>1, <2>2
  <2>. QED
    BY <2>1, <2>2
<1>. QED
  BY <1>1, <1>2

\* The child of s reads a message, or none, and answers: what it says is not about TLS.
LEMMA ChildAnswers ==
    ASSUME SessionInv, NEW s \in Session, NEW to, NEW x, NEW t, NEW v,
           UNCHANGED << setup, cpc, ctls, got, mpc, ran, rtls, conn, r2m, m2r >>,
           rpc' = [rpc EXCEPT ![s] = to], c2r' = [c2r EXCEPT ![s] = x], M!ToClient(s, t, v),
           x = c2r[s] \/ (c2r[s] # << >> /\ x = Tail(c2r[s])),
           t \in {"sasl", "continue", "final", "ok", "refused"},
           v = IF t = "final" THEN setup[s].admin_password ELSE M!None,
           \/ to = "gone" /\ rpc[s] \notin {"answer", "gone"}
           \/ /\ rpc[s] \in M!Login \cup {"success"}
              /\ to \in {"first", "proof", "success", "connect"}
              /\ cpc[s] \notin {"start", "ssl"}
              /\ rpc[s] = "hello" => c2r[s] # << >> /\ x = Tail(c2r[s])
              /\ to \in {"success", "connect"} => Authorised(s)
    PROVE  SessionInv'
<1>. DEFINE m == M!Msg(t, rtls[s], v)
            y == Append(r2c[s], m)
<1>0. /\ Places(s) /\ Queues(s) /\ Opening(s) /\ Once(s) /\ Shapes
      /\ rpc[s] \notin {"answer", "gone"}
  BY Known DEF SessionInv, M!Login
<1>1. rpc'[s] = to
  BY <1>0 DEF Shapes
<1>2. r2c' = [r2c EXCEPT ![s] = y]
  BY DEF M!ToClient
<1>3. /\ rtls' = [rtls EXCEPT ![s] = rtls[s]] /\ conn' = [conn EXCEPT ![s] = conn[s]]
      /\ r2m' = [r2m EXCEPT ![s] = r2m[s]] /\ m2r' = [m2r EXCEPT ![s] = m2r[s]]
  BY <1>0 DEF Shapes
<1>4. Replies(s)' = Replies(s)
  <2>1. Answers(s)' = Answers(s)
    BY DEF Answers, M!Outcome
  <2>. QED
    BY <2>1 DEF Replies
<1>5. m \in Replies(s) /\ m.tag \notin {"S", "N"}
  BY <1>0 DEF Places, Replies, M!Msg
<1>. HIDE DEF m
<1>6. y \in Seq(Replies(s)') /\ \A i \in 2 .. Len(y) : y[i].tag \notin {"S", "N"}
  BY <1>0, <1>4, <1>5, OneMoreReply DEF Queues
<1>. HIDE DEF y
<1>7. x \in Seq(Requests(s)')
  <2>1. x \in Seq(Requests(s))
    <3>1. c2r[s] \in Seq(Requests(s))
      BY <1>0 DEF Queues
    <3>2. CASE x = c2r[s]
      BY <3>1, <3>2
    <3>3. CASE c2r[s] # << >> /\ x = Tail(c2r[s])
      BY <3>1, <3>3, HeadTailProperties
    <3>. QED
      BY <3>2, <3>3
  <2>2. CASE to = "gone" \/ rpc[s] # "hello"
    BY <1>0, <2>1, <2>2, ChildKeeps, SeqMonotonic
  <2>3. CASE to # "gone" /\ rpc[s] = "hello"
    <3>1. c2r[s] \in Seq(Requests(s)) /\ c2r[s] # << >> /\ Len(c2r[s]) <= 1 /\ x = Tail(c2r[s])
      BY <1>0, <2>3 DEF Opening, Queues
    <3>4. x = << >>
      BY <3>1, OneLess
    <3>. QED
      BY <3>4, EmptySeq
  <2>. QED
    BY <2>2, <2>3
<1>8. /\ cpc[s] = "start" => x = << >> /\ to = "gone" /\ rtls[s] = FALSE
      /\ cpc[s] = "ssl" => to \in {"startup", "gone"}
      /\ cpc[s] \notin {"start", "ssl"} \cup M!ClientOver => ctls[s] = rtls[s]
      /\ rtls[s] \in BOOLEAN /\ r2m[s] = << >> /\ m2r[s] \in Seq(Answers(s))
  BY <1>0 DEF Opening, Places, Once, Queues
<1>9. to \in {"startup", "first", "proof", "success", "connect", "command", "answer", "gone"}
  OBVIOUS
<1>10. to \in {"success", "connect", "command", "answer"} => Authorised(s)
  OBVIOUS
<1>11. UNCHANGED << setup, cpc, ctls, got, mpc, ran >>
  OBVIOUS
<1>12. /\ r2m[s] \in {<< >>, << setup[s].command >>} /\ conn[s] \in {conn[s], "queued"}
       /\ rpc[s] # "gone" /\ rpc[s] # "answer"
  BY <1>0, <1>8
<1>13. rpc' = [rpc EXCEPT ![s] = to] /\ c2r' = [c2r EXCEPT ![s] = x]
  OBVIOUS
<1>. QED
  BY ONLY SessionInv, <1>2, <1>3, <1>6, <1>7, <1>8, <1>9, <1>10, <1>11, <1>12, <1>13, ChildMoves

\* The login, as the child sees it.
LEMMA ChildLogsIn ==
    ASSUME SessionInv, NEW s \in Session,
           M!ChildStartup(s) \/ M!ChildContinue(s) \/ M!ChildFinal(s)
    PROVE  SessionInv'
<1>0. /\ UNCHANGED << setup, cpc, ctls, got, mpc, ran, rtls, conn, r2m, m2r >>
      /\ c2r[s] # << >> /\ c2r' = [c2r EXCEPT ![s] = Tail(c2r[s])]
      /\ rpc[s] \in M!Login /\ rpc[s] \notin {"answer", "gone"}
      /\ Head(c2r[s]).tag \in {"startup", "first", "proof"}
  BY DEF M!ChildStartup, M!ChildContinue, M!ChildFinal, M!client, M!main, M!ChildHas, M!ChildReads,
         M!Login, M!ChildAt
<1>1. Head(c2r[s]) \in Requests(s)
  BY <1>0, Known
<1>2. cpc[s] \notin {"start", "ssl"}
  BY <1>0, <1>1 DEF Requests
<1>3. ASSUME M!Refuse(s) PROVE SessionInv'
  BY <1>0, <1>3, ChildAnswers DEF M!Refuse
<1>4. CASE M!ChildStartup(s)
  <2>1. CASE rpc' = [rpc EXCEPT ![s] = "first"] /\ M!ToClient(s, "sasl", M!None)
    BY <1>0, <1>2, <2>1, ChildAnswers
  <2>. QED
    BY <1>3, <1>4, <2>1 DEF M!ChildStartup
<1>5. CASE M!ChildContinue(s)
  BY <1>0, <1>2, <1>5, ChildAnswers DEF M!ChildContinue, M!ChildAt
<1>6. CASE M!ChildFinal(s)
  <2>1. CASE M!ProofMatches(s) /\ rpc' = [rpc EXCEPT ![s] = "success"] /\ M!ToClient(s, "final", setup[s].admin_password)
    <3>1. Head(c2r[s]).val = setup[s].client_password
      BY <1>1, <1>6 DEF M!ChildFinal, M!ChildHas, Requests
    <3>2. Authorised(s)
      BY <2>1, <3>1 DEF M!ProofMatches, Authorised, M!Knows
    <3>. QED
      BY <1>0, <1>2, <2>1, <3>2, ChildAnswers
  <2>. QED
    BY <1>3, <1>6, <2>1 DEF M!ChildFinal
<1>. QED
  BY <1>4, <1>5, <1>6

LEMMA ChildWaits ==
    ASSUME SessionInv, NEW s \in Session, M!ChildSuccess(s) \/ M!ChildGivesUp(s)
    PROVE  SessionInv'
<1>0. /\ UNCHANGED << setup, cpc, ctls, got, mpc, ran, rtls, conn, r2m, m2r, c2r >>
      /\ c2r = [c2r EXCEPT ![s] = c2r[s]]
  BY Known DEF M!ChildSuccess, M!ChildGivesUp, M!client, M!main
<1>1. CASE M!ChildSuccess(s)
  <2>1. /\ rpc[s] = "success" /\ rpc' = [rpc EXCEPT ![s] = "connect"]
        /\ M!ToClient(s, "ok", M!None)
    BY <1>1 DEF M!ChildSuccess, M!ChildAt
  <2>2. Authorised(s) /\ cpc[s] \notin {"start", "ssl"}
    BY <2>1, Known DEF Once, Opening
  <2>. QED
    BY <1>0, <2>1, <2>2, ChildAnswers
<1>2. CASE M!ChildGivesUp(s)
  <2>1. rpc[s] \notin {"answer", "gone"} /\ rpc' = [rpc EXCEPT ![s] = "gone"] /\ M!ToClient(s, "refused", M!None)
    BY <1>2 DEF M!ChildGivesUp, M!Refuse, M!Login
  <2>. QED
    BY <1>0, <2>1, ChildAnswers
<1>. QED
  BY <1>1, <1>2

\* The child agrees on TLS, or declines.
LEMMA ChildAgrees ==
    ASSUME SessionInv, NEW s \in Session, M!ChildTls(s)
    PROVE  SessionInv'
<1>. DEFINE e == setup[s].server_tls
            t == IF e THEN "S" ELSE "N"
            m == M!Msg(t, rtls[s], M!None)
<1>0. /\ Places(s) /\ Queues(s) /\ Opening(s) /\ Once(s) /\ Shapes
      /\ UNCHANGED << setup, cpc, ctls, got, mpc, ran, conn, r2m, m2r >>
      /\ rpc[s] = "hello" /\ rpc' = [rpc EXCEPT ![s] = "startup"]
      /\ rtls' = [rtls EXCEPT ![s] = e]
      /\ c2r[s] # << >> /\ Head(c2r[s]).tag = "ssl" /\ c2r' = [c2r EXCEPT ![s] = Tail(c2r[s])]
      /\ r2c' = [r2c EXCEPT ![s] = Append(r2c[s], m)]
  BY Known DEF SessionInv, M!ChildTls, M!ChildAt, M!ChildHas, M!ChildReads, M!ToClient, M!client, M!main
<1>1. e \in BOOLEAN
  BY <1>0, ClientAssumption DEF Shapes
<1>2. r2c[s] = << >> /\ rtls[s] = FALSE /\ Len(c2r[s]) <= 1 /\ r2m[s] = << >> /\ m2r[s] \in Seq(Answers(s))
  BY <1>0 DEF Opening, Once, Queues
<1>3. Tail(c2r[s]) = << >>
  BY <1>0, <1>2, OneLess DEF Queues
<1>4. Head(c2r[s]) \in Requests(s)
  BY <1>0, Known
<1>5. cpc[s] \in {"ssl"} \cup M!ClientOver
  BY <1>0, <1>4 DEF Requests
<1>6. rpc'[s] = "startup" /\ rtls'[s] = e
  BY <1>0 DEF Shapes
<1>7. m \in Replies(s)'
  BY <1>0, <1>1, <1>2, <1>5, <1>6 DEF Replies, M!Msg
<1>. DEFINE y == Append(r2c[s], m)
<1>. HIDE DEF m
<1>8. y \in Seq(Replies(s)') /\ Len(y) = 1
  <2>1. r2c[s] \in Seq(Replies(s)') /\ Len(r2c[s]) = 0
    BY <1>2, EmptySeq
  <2>. QED
    BY <1>7, <2>1, AppendProperties
<1>. HIDE DEF y
<1>9. \A i \in 2 .. Len(y) : y[i].tag \notin {"S", "N"}
  BY <1>8
<1>10. << >> \in Seq(Requests(s)')
  BY EmptySeq
<1>11. /\ conn' = [conn EXCEPT ![s] = conn[s]] /\ r2m' = [r2m EXCEPT ![s] = << >>] /\ m2r' = [m2r EXCEPT ![s] = m2r[s]]
       /\ c2r' = [c2r EXCEPT ![s] = << >>] /\ r2c' = [r2c EXCEPT ![s] = y]
  BY <1>0, <1>2, <1>3 DEF Shapes, y
<1>12. cpc[s] # "start" /\ (cpc[s] \notin {"start", "ssl"} \cup M!ClientOver => FALSE)
  BY <1>5 DEF M!ClientOver
<1>. HIDE DEF e
<1>. QED
  BY <1>0, <1>1, <1>2, <1>8, <1>9, <1>10, <1>11, <1>12, ChildMoves

\* The child between the client and the main process.
LEMMA ChildPasses ==
    ASSUME SessionInv, NEW s \in Session,
           \/ M!ChildConnect(s) \/ M!ChildForward(s) \/ M!ChildNoCommand(s)
           \/ M!ChildReturn(s) \/ M!ChildNoAnswer(s)
    PROVE  SessionInv'
<1>0. /\ Places(s) /\ Queues(s) /\ Opening(s) /\ Once(s) /\ Shapes
      /\ UNCHANGED << setup, cpc, ctls, got, mpc, ran, rtls >>
      /\ rpc[s] \in {"connect", "command", "answer"}
  BY Known DEF SessionInv, M!ChildConnect, M!ChildForward, M!ChildNoCommand, M!ChildReturn, M!ChildNoAnswer,
         M!ChildAt, M!client, M!main, M!wires
<1>1. /\ Authorised(s) /\ rtls[s] \in BOOLEAN /\ rpc[s] # "gone"
      /\ cpc[s] \notin {"start", "ssl"}
      /\ cpc[s] \notin {"start", "ssl"} \cup M!ClientOver => ctls[s] = rtls[s]
      /\ rtls' = [rtls EXCEPT ![s] = rtls[s]]
      /\ r2m[s] \in {<< >>, << setup[s].command >>}
      /\ rpc[s] # "answer" => r2m[s] = << >>
  BY <1>0 DEF Once, Places, Opening, Shapes
<1>2. /\ c2r[s] \in Seq(Requests(s)) /\ r2c[s] \in Seq(Replies(s)) /\ m2r[s] \in Seq(Answers(s))
      /\ \A i \in 2 .. Len(r2c[s]) : r2c[s][i].tag \notin {"S", "N"}
  BY <1>0 DEF Queues
<1>3. /\ c2r = [c2r EXCEPT ![s] = c2r[s]] /\ r2c = [r2c EXCEPT ![s] = r2c[s]] /\ conn = [conn EXCEPT ![s] = conn[s]]
      /\ r2m = [r2m EXCEPT ![s] = r2m[s]] /\ m2r = [m2r EXCEPT ![s] = m2r[s]]
  BY <1>0 DEF Shapes
<1>4. ASSUME NEW to, rpc' = [rpc EXCEPT ![s] = to]
      PROVE  Requests(s) \subseteq Requests(s)' /\ Replies(s) \subseteq Replies(s)'
  BY <1>0, <1>4, ChildKeeps
<1>5. CASE M!ChildConnect(s)
  <2>1. PICK to \in {"gone", "command"}, k \in {conn[s], "queued"} :
           rpc' = [rpc EXCEPT ![s] = to] /\ conn' = [conn EXCEPT ![s] = k]
    BY <1>3, <1>5 DEF M!ChildConnect
  <2>2. UNCHANGED << c2r, r2c, r2m, m2r >> /\ r2m[s] = << >> /\ rpc[s] # "answer"
    BY <1>1, <1>5 DEF M!ChildConnect, M!wires
  <2>3. c2r[s] \in Seq(Requests(s)') /\ r2c[s] \in Seq(Replies(s)')
    BY <1>2, <1>4, <2>1, SeqMonotonic
  <2>. QED
    BY <1>0, <1>1, <1>2, <1>3, <2>1, <2>2, <2>3, ChildMoves
<1>6. CASE M!ChildForward(s)
  <2>1. /\ rpc[s] = "command" /\ rpc' = [rpc EXCEPT ![s] = "answer"]
        /\ c2r[s] # << >> /\ Head(c2r[s]).tag = "command" /\ c2r' = [c2r EXCEPT ![s] = Tail(c2r[s])]
        /\ r2m' = [r2m EXCEPT ![s] = Append(r2m[s], Head(c2r[s]).val)]
        /\ UNCHANGED << r2c, m2r, conn >>
    BY <1>6 DEF M!ChildForward, M!ChildAt, M!ChildHas, M!ChildReads, M!main
  <2>2. Head(c2r[s]) \in Requests(s)
    BY <2>1, Known
  <2>3. Head(c2r[s]).val = setup[s].command
    BY <2>1, <2>2 DEF Requests
  <2>4. r2m' = [r2m EXCEPT ![s] = << setup[s].command >>]
    <3>1. r2m[s] = << >>
      BY <1>1, <2>1
    <3>2. Append(<< >>, setup[s].command) = << setup[s].command >>
      OBVIOUS
    <3>. QED
      BY <2>1, <2>3, <3>1, <3>2
  <2>5. Tail(c2r[s]) \in Seq(Requests(s)') /\ r2c[s] \in Seq(Replies(s)')
    BY <1>2, <1>4, <2>1, SeqMonotonic, OneLess
  <2>6. /\ r2c' = [r2c EXCEPT ![s] = r2c[s]] /\ m2r' = [m2r EXCEPT ![s] = m2r[s]]
        /\ conn' = [conn EXCEPT ![s] = conn[s]]
    BY <1>3, <2>1
  <2>7. /\ rpc[s] = "command" /\ rpc' = [rpc EXCEPT ![s] = "answer"] /\ c2r' = [c2r EXCEPT ![s] = Tail(c2r[s])]
        /\ conn[s] \in {conn[s], "queued"} /\ UNCHANGED << setup, cpc, ctls, got, mpc, ran >>
    BY <1>0, <2>1
  <2>. QED
    BY ONLY SessionInv, <1>1, <1>2, <2>4, <2>5, <2>6, <2>7, ChildMoves
<1>7. CASE M!ChildNoCommand(s) \/ M!ChildNoAnswer(s)
  <2>1. rpc' = [rpc EXCEPT ![s] = "gone"] /\ UNCHANGED << c2r, r2c, r2m, m2r, conn >>
    BY <1>7 DEF M!ChildNoCommand, M!ChildNoAnswer, M!ChildAt, M!wires, M!main
  <2>2. c2r[s] \in Seq(Requests(s)') /\ r2c[s] \in Seq(Replies(s)')
    BY <1>2, <1>4, <2>1, SeqMonotonic
  <2>3. /\ r2c' = [r2c EXCEPT ![s] = r2c[s]] /\ m2r' = [m2r EXCEPT ![s] = m2r[s]]
        /\ c2r' = [c2r EXCEPT ![s] = c2r[s]] /\ r2m' = [r2m EXCEPT ![s] = r2m[s]]
        /\ conn' = [conn EXCEPT ![s] = conn[s]]
    BY <1>3, <2>1
  <2>4. /\ rpc' = [rpc EXCEPT ![s] = "gone"] /\ (r2m[s] # << >> => Authorised(s))
        /\ conn[s] \in {conn[s], "queued"} /\ UNCHANGED << setup, cpc, ctls, got, mpc, ran >>
    BY <1>0, <1>1, <2>1
  <2>. QED
    BY ONLY SessionInv, <1>1, <1>2, <2>2, <2>3, <2>4, ChildMoves
<1>8. CASE M!ChildReturn(s)
  <2>. DEFINE m == M!Msg("answer", rtls[s], Head(m2r[s]))
              y == Append(r2c[s], m)
  <2>1. /\ rpc' = [rpc EXCEPT ![s] = "gone"] /\ UNCHANGED << c2r, r2m, conn >>
        /\ m2r[s] # << >> /\ m2r' = [m2r EXCEPT ![s] = Tail(m2r[s])]
        /\ r2c' = [r2c EXCEPT ![s] = y]
    BY <1>8 DEF M!ChildReturn, M!ChildAt, M!ToClient, M!main
  <2>2. Head(m2r[s]) \in Answers(s) /\ Tail(m2r[s]) \in Seq(Answers(s))
    BY <1>2, <2>1, HeadTailProperties
  <2>3. m \in Replies(s) /\ m.tag \notin {"S", "N"}
    BY <1>1, <2>2 DEF Replies, M!Msg
  <2>. HIDE DEF m
  <2>4. y \in Seq(Replies(s)) /\ \A i \in 2 .. Len(y) : y[i].tag \notin {"S", "N"}
    BY <1>2, <2>3, OneMoreReply
  <2>. HIDE DEF y
  <2>5. c2r[s] \in Seq(Requests(s)') /\ y \in Seq(Replies(s)')
    BY <1>2, <1>4, <2>1, <2>4, SeqMonotonic
  <2>6. /\ c2r' = [c2r EXCEPT ![s] = c2r[s]] /\ r2m' = [r2m EXCEPT ![s] = r2m[s]]
        /\ conn' = [conn EXCEPT ![s] = conn[s]]
    BY <1>3, <2>1
  <2>7. /\ rpc' = [rpc EXCEPT ![s] = "gone"] /\ (r2m[s] # << >> => Authorised(s))
        /\ m2r' = [m2r EXCEPT ![s] = Tail(m2r[s])] /\ r2c' = [r2c EXCEPT ![s] = y]
        /\ conn[s] \in {conn[s], "queued"} /\ UNCHANGED << setup, cpc, ctls, got, mpc, ran >>
    BY <1>0, <1>1, <2>1
  <2>. QED
    BY ONLY SessionInv, <1>1, <2>2, <2>4, <2>5, <2>6, <2>7, ChildMoves
<1>. QED
  BY <1>5, <1>6, <1>7, <1>8

\* A step of the main process, or of a worker, for s.
LEMMA MainMoves ==
    ASSUME SessionInv, NEW s \in Session, NEW n, NEW a, NEW z,
           UNCHANGED << setup, cpc, ctls, got, rpc, rtls, c2r, r2c >>,
           r2m' = [r2m EXCEPT ![s] = n], ran' = [ran EXCEPT ![s] = a], m2r' = [m2r EXCEPT ![s] = z],
           mpc' \in {M!Idle, << "stopped" >>} \cup ({"reading"} \X Session),
           conn' = [t \in Session |-> conn'[t]],
           conn'[s] \in {"none", "queued", "main", "worker", "closed"},
           conn'[s] = "worker" => a = << setup[s].command >>,
           \A t \in Session \ {s} : conn'[t] \in {conn[t], "closed"},
           z \in Seq(Answers(s)'),
           \/ n = r2m[s] /\ a = ran[s]
           \/ r2m[s] # << >> /\ n = << >> /\ a \in {ran[s], << setup[s].command >>}
    PROVE  SessionInv'
<1>0. Shapes /\ Places(s) /\ Queues(s) /\ Opening(s) /\ Once(s)
  BY Known DEF SessionInv
<1>1. m2r'[s] = z /\ r2m'[s] = n /\ ran'[s] = a
  BY <1>0 DEF Shapes
<1>2. Elsewhere(s)
  BY DEF Elsewhere
<1>3. Shapes'
  <2>1. UNCHANGED << setup, cpc, ctls, got, rpc, rtls, c2r, r2c >> /\ conn' = [t \in Session |-> conn'[t]]
    OBVIOUS
  <2>2. r2m' = [t \in Session |-> r2m'[t]] /\ m2r' = [t \in Session |-> m2r'[t]] /\ ran' = [t \in Session |-> ran'[t]]
    BY <1>0 DEF Shapes
  <2>. QED
    BY <1>0, <2>1, <2>2 DEF Shapes
<1>4. ran[s] = << setup[s].command >> => a = << setup[s].command >>
  BY <1>0 DEF Once
<1>5. Answers(s) \subseteq Answers(s)'
  BY <1>1, <1>4 DEF Answers, M!Outcome
<1>6. Requests(s)' = Requests(s)
  BY DEF Requests
<1>7. Replies(s) \subseteq Replies(s)'
  BY <1>5 DEF Replies
<1>8. /\ c2r[s] \in Seq(Requests(s)') /\ r2c[s] \in Seq(Replies(s)') /\ got[s] \in Seq(Answers(s)')
  BY <1>0, <1>5, <1>6, <1>7, SeqMonotonic DEF Queues
<1>9. Queues(s)'
  BY <1>0, <1>1, <1>8 DEF Queues
<1>10. Places(s)' /\ Opening(s)'
  BY <1>0, <1>1 DEF Places, Opening
<1>11. Once(s)'
  BY <1>0, <1>1 DEF Once, Authorised, M!Knows
<1>. QED
  BY <1>2, <1>3, <1>9, <1>10, <1>11, OthersKeep DEF SessionOk

\* The main process takes a connection, or loses one.
LEMMA MainAccepts ==
    ASSUME SessionInv, NEW s \in Session, M!Accept(s) \/ M!NoRequest(s)
    PROVE  SessionInv'
<1>0. Shapes /\ Queues(s) /\ Once(s) /\ Places(s)
  BY Known DEF SessionInv
<1>1. /\ UNCHANGED << setup, cpc, ctls, got, rpc, rtls, c2r, r2c, ran, r2m, m2r >>
      /\ mpc' \in {M!Idle, << "reading", s >>}
      /\ conn' = [conn EXCEPT ![s] = "main"] \/ conn' = [conn EXCEPT ![s] = "closed"]
  BY DEF M!Accept, M!NoRequest, M!client, M!child, M!wires
<1>2. /\ conn' = [t \in Session |-> conn'[t]] /\ conn'[s] \in {"main", "closed"}
      /\ \A t \in Session \ {s} : conn'[t] = conn[t]
  BY <1>0, <1>1 DEF Shapes
<1>3. /\ r2m' = [r2m EXCEPT ![s] = r2m[s]] /\ ran' = [ran EXCEPT ![s] = ran[s]] /\ m2r' = [m2r EXCEPT ![s] = m2r[s]]
  BY <1>0, <1>1 DEF Shapes
<1>4. Answers(s)' = Answers(s)
  BY <1>1 DEF Answers, M!Outcome
<1>5. m2r[s] \in Seq(Answers(s)')
  BY <1>0, <1>4 DEF Queues
<1>6. mpc' \in {M!Idle, << "stopped" >>} \cup ({"reading"} \X Session)
  BY <1>1
<1>. QED
  BY ONLY SessionInv, <1>1, <1>2, <1>3, <1>5, <1>6, MainMoves

\* The command of s is read: it is the one its client gave.
LEMMA CommandRead ==
    ASSUME SessionInv, NEW s \in Session, M!MainHas(s)
    PROVE  /\ r2m[s] = << setup[s].command >> /\ Head(r2m[s]) = setup[s].command /\ Tail(r2m[s]) = << >>
           /\ r2m[s] # << >> /\ ran[s] = << >> /\ setup[s].command \in M!Command
<1>1. Once(s) /\ Shapes
  BY Known DEF SessionInv
<1>2. r2m[s] = << setup[s].command >> /\ r2m[s] # << >> /\ ran[s] = << >>
  BY <1>1 DEF M!MainHas, Once
<1>3. Head(<< setup[s].command >>) = setup[s].command /\ Tail(<< setup[s].command >>) = << >>
  OBVIOUS
<1>4. setup[s].command \in M!Command
  BY <1>1, ClientAssumption DEF Shapes
<1>. QED
  BY <1>2, <1>3, <1>4

\* The command is run, and answered: a = what ran, k = where the connection goes.
LEMMA MainRuns ==
    ASSUME SessionInv, NEW s \in Session, M!MainHas(s), NEW a, NEW k \in {"worker", "closed"}, NEW r,
           UNCHANGED << setup, cpc, ctls, got, rpc, rtls, c2r, r2c >>,
           mpc' \in {M!Idle, << "stopped" >>},
           r2m' = [r2m EXCEPT ![s] = Tail(r2m[s])],
           ran' = [ran EXCEPT ![s] = a], a \in {<< >>, << setup[s].command >>},
           conn' = [t \in Session |-> conn'[t]], conn'[s] = k, k = "worker" => a = << setup[s].command >>,
           \A t \in Session \ {s} : conn'[t] \in {conn[t], "closed"},
           \/ m2r' = m2r
           \/ M!Answer(s, setup[s].command, r) /\ r \in M!Outcome(setup[s].command)
                /\ (r = "ok" => a = << setup[s].command >>)
    PROVE  SessionInv'
<1>0. Shapes /\ Queues(s) /\ Once(s) /\ Places(s)
  BY Known DEF SessionInv
<1>1. r2m[s] # << >> /\ ran[s] = << >> /\ r2m' = [r2m EXCEPT ![s] = << >>] /\ a \in {ran[s], << setup[s].command >>}
  BY CommandRead
<1>2. ran'[s] = a
  BY <1>0 DEF Shapes
<1>3. Answers(s) \subseteq Answers(s)'
  BY <1>1, <1>2 DEF Answers, M!Outcome
<1>4. m2r[s] \in Seq(Answers(s)')
  BY <1>0, <1>3, SeqMonotonic DEF Queues
<1>5. PICK z \in Seq(Answers(s)') : m2r' = [m2r EXCEPT ![s] = z]
  <2>1. CASE m2r' = m2r
    BY <1>0, <1>4, <2>1 DEF Shapes
  <2>2. CASE M!Answer(s, setup[s].command, r) /\ r \in M!Outcome(setup[s].command)
               /\ (r = "ok" => a = << setup[s].command >>)
    <3>. DEFINE b == [command |-> setup[s].command, result |-> r]
    <3>1. b \in Answers(s)'
      BY <1>2, <2>2 DEF Answers, M!Outcome
    <3>2. m2r' = [m2r EXCEPT ![s] = Append(m2r[s], b)]
      BY <2>2 DEF M!Answer
    <3>. HIDE DEF b
    <3>3. Append(m2r[s], b) \in Seq(Answers(s)')
      BY <1>4, <3>1, AppendProperties
    <3>. QED
      BY <3>2, <3>3
  <2>. QED
    BY <2>1, <2>2
<1>6. mpc' \in {M!Idle, << "stopped" >>} \cup ({"reading"} \X Session)
  OBVIOUS
<1>7. /\ conn'[s] \in {"none", "queued", "main", "worker", "closed"}
      /\ conn'[s] = "worker" => a = << setup[s].command >>
  OBVIOUS
<1>. QED
  BY <1>1, <1>5, <1>6, <1>7, MainMoves

LEMMA MainServes ==
    ASSUME SessionInv, NEW s \in Session,
           M!RunHere(s) \/ M!RunShutdown(s) \/ M!RunForked(s) \/ M!Unknown(s)
    PROVE  SessionInv'
<1>. DEFINE c == setup[s].command
<1>0. /\ UNCHANGED << setup, cpc, ctls, got, rpc, rtls, c2r, r2c >> /\ M!MainHas(s)
      /\ r2m' = [r2m EXCEPT ![s] = Tail(r2m[s])] /\ mpc' \in {M!Idle, << "stopped" >>}
  BY DEF M!RunHere, M!RunShutdown, M!RunForked, M!Unknown, M!client, M!child
<1>1. Head(r2m[s]) = c /\ ran[s] = << >> /\ Shapes /\ Append(<< >>, c) = << c >>
  BY <1>0, CommandRead DEF SessionInv
<1>2. /\ M!Run(s, c) => ran' = [ran EXCEPT ![s] = << c >>]
      /\ ran' = ran => ran' = [ran EXCEPT ![s] = ran[s]] /\ ran[s] \in {<< >>, << c >>}
  BY <1>1 DEF M!Run, Shapes
<1>3. ASSUME NEW k, conn' = [conn EXCEPT ![s] = k]
      PROVE  /\ conn' = [t \in Session |-> conn'[t]] /\ conn'[s] = k
             /\ \A t \in Session \ {s} : conn'[t] \in {conn[t], "closed"}
  BY <1>1, <1>3 DEF Shapes
<1>4. CASE M!RunHere(s)
  <2>1. PICK r \in M!Outcome(c) : M!Answer(s, c, r)
    BY <1>1, <1>4 DEF M!RunHere
  <2>2. M!Run(s, c) /\ conn' = [conn EXCEPT ![s] = "closed"]
    BY <1>1, <1>4 DEF M!RunHere
  <2>. QED
    BY <1>0, <1>2, <1>3, <2>1, <2>2, MainRuns
<1>5. CASE M!RunShutdown(s)
  <2>1. M!Run(s, c) /\ M!Answer(s, c, "ok") /\ c = "shutdown"
    BY <1>1, <1>5 DEF M!RunShutdown
  <2>2. "ok" \in M!Outcome(c)
    BY <2>1 DEF M!Outcome, M!Forked
  <2>3. /\ conn' = [t \in Session |-> conn'[t]] /\ conn'[s] = "closed"
        /\ \A t \in Session \ {s} : conn'[t] \in {conn[t], "closed"}
    BY <1>5 DEF M!RunShutdown
  <2>. QED
    BY <1>0, <1>2, <2>1, <2>2, <2>3, MainRuns
<1>6. CASE M!RunForked(s)
  <2>1. CASE conn' = [conn EXCEPT ![s] = "worker"] /\ M!Run(s, c) /\ UNCHANGED m2r
    BY <1>0, <1>2, <1>3, <2>1, MainRuns
  <2>2. CASE conn' = [conn EXCEPT ![s] = "closed"] /\ M!Answer(s, c, "error") /\ UNCHANGED ran /\ c \in M!Forked
    <3>1. "error" \in M!Outcome(c)
      BY <2>2 DEF M!Outcome
    <3>2. /\ ran' = [ran EXCEPT ![s] = ran[s]] /\ ran[s] \in {<< >>, << c >>}
          /\ conn' = [t \in Session |-> conn'[t]] /\ conn'[s] = "closed"
          /\ \A t \in Session \ {s} : conn'[t] \in {conn[t], "closed"}
      BY <1>2, <1>3, <2>2
    <3>. QED
      BY ONLY SessionInv, <1>0, <2>2, <3>1, <3>2, MainRuns
  <2>. QED
    BY <1>1, <1>6, <2>1, <2>2 DEF M!RunForked
<1>7. CASE M!Unknown(s)
  <2>1. c = "unknown" /\ M!Answer(s, c, "error") /\ UNCHANGED ran /\ conn' = [conn EXCEPT ![s] = "closed"]
    BY <1>1, <1>7 DEF M!Unknown
  <2>2. "error" \in M!Outcome(c)
    BY <2>1 DEF M!Outcome, M!Forked
  <2>3. /\ ran' = [ran EXCEPT ![s] = ran[s]] /\ ran[s] \in {<< >>, << c >>}
        /\ conn' = [t \in Session |-> conn'[t]] /\ conn'[s] = "closed"
        /\ \A t \in Session \ {s} : conn'[t] \in {conn[t], "closed"}
    BY <1>2, <1>3, <2>1
  <2>4. M!Answer(s, c, "error")
    BY <2>1
  <2>. QED
    BY ONLY SessionInv, <1>0, <2>2, <2>3, <2>4, MainRuns
<1>. QED
  BY <1>4, <1>5, <1>6, <1>7

\* The worker answers what it ran.
LEMMA WorkerAnswers ==
    ASSUME SessionInv, NEW s \in Session, M!Worker(s)
    PROVE  SessionInv'
<1>. DEFINE c == setup[s].command
<1>0. Shapes /\ Queues(s) /\ Once(s) /\ Places(s)
  BY Known DEF SessionInv
<1>1. /\ UNCHANGED << setup, cpc, ctls, got, rpc, rtls, c2r, r2c, mpc, ran, r2m >>
      /\ conn[s] = "worker" /\ conn' = [conn EXCEPT ![s] = "closed"]
  BY DEF M!Worker, M!client, M!child
<1>2. ran[s] = << c >> /\ ran[s][1] = c
  BY <1>0, <1>1 DEF Once
<1>3. Answers(s)' = Answers(s)
  BY <1>1 DEF Answers, M!Outcome
<1>4. PICK z \in Seq(Answers(s)') : m2r' = [m2r EXCEPT ![s] = z]
  <2>1. CASE m2r' = m2r
    BY <1>0, <1>3, <2>1 DEF Shapes, Queues
  <2>2. ASSUME NEW r \in M!Outcome(c), M!Answer(s, c, r)
        PROVE  \E z \in Seq(Answers(s)') : m2r' = [m2r EXCEPT ![s] = z]
    <3>. DEFINE b == [command |-> c, result |-> r]
    <3>1. b \in Answers(s)
      BY <1>2, <2>2 DEF Answers
    <3>2. m2r' = [m2r EXCEPT ![s] = Append(m2r[s], b)]
      BY <2>2 DEF M!Answer
    <3>. HIDE DEF b
    <3>3. Append(m2r[s], b) \in Seq(Answers(s)')
      BY <1>0, <1>3, <3>1, AppendProperties DEF Queues
    <3>. QED
      BY <3>2, <3>3
  <2>. QED
    <3>1. m2r' = m2r \/ \E r \in M!Outcome(c) : M!Answer(s, c, r)
      BY <1>2 DEF M!Worker
    <3>. QED
      BY <2>1, <2>2, <3>1
<1>5. /\ conn' = [t \in Session |-> conn'[t]] /\ conn'[s] = "closed"
      /\ \A t \in Session \ {s} : conn'[t] \in {conn[t], "closed"}
      /\ r2m' = [r2m EXCEPT ![s] = r2m[s]] /\ ran' = [ran EXCEPT ![s] = ran[s]]
      /\ mpc' \in {M!Idle, << "stopped" >>} \cup ({"reading"} \X Session)
  BY <1>0, <1>1 DEF Shapes
<1>. QED
  BY ONLY SessionInv, <1>1, <1>4, <1>5, MainMoves

\* A step of another part.
LEMMA SessionQuiet ==
    ASSUME SessionInv, UNCHANGED ManagementVars
    PROVE  SessionInv'
<1>0. UNCHANGED << setup, cpc, rpc, mpc, ctls, rtls, c2r, r2c, r2m, m2r, conn, ran, got >>
  BY DEF ManagementVars
<1>1. Shapes'
  BY <1>0 DEF SessionInv, Shapes
<1>2. ASSUME NEW s \in Session PROVE SessionOk(s)'
  <2>0. SessionOk(s)
    BY DEF SessionInv
  <2>1. Answers(s)' = Answers(s)
    BY <1>0 DEF Answers, M!Outcome
  <2>2. Requests(s)' = Requests(s)
    BY <1>0 DEF Requests
  <2>3. Replies(s)' = Replies(s)
    BY <1>0, <2>1 DEF Replies
  <2>4. Queues(s)'
    BY <1>0, <2>0, <2>1, <2>2, <2>3 DEF SessionOk, Queues
  <2>5. Places(s)' /\ Opening(s)'
    BY <1>0, <2>0 DEF SessionOk, Places, Opening
  <2>6. Once(s)'
    BY <1>0, <2>0 DEF SessionOk, Once, Authorised, M!Knows
  <2>. QED
    BY <2>4, <2>5, <2>6 DEF SessionOk
<1>. QED
  BY <1>1, <1>2 DEF SessionInv

LEMMA StepSession == SessionInv /\ [Next]_vars => SessionInv'
<1>. SUFFICES ASSUME SessionInv, [Next]_vars PROVE SessionInv'
  OBVIOUS
<1>1. ASSUME NEW s \in Session, M!ClientStep(s) \/ M!ClientLeaves(s)
      PROVE  SessionInv'
  BY <1>1, ClientOpens, ClientLogsIn, ClientIsServed, ClientStops DEF M!ClientStep
<1>2. ASSUME NEW s \in Session, M!ChildStep(s)
      PROVE  SessionInv'
  BY <1>2, ChildLogsIn, ChildWaits, ChildAgrees, ChildPasses DEF M!ChildStep
<1>3. ASSUME NEW s \in Session, M!MainStep(s) \/ M!Worker(s)
      PROVE  SessionInv'
  BY <1>3, MainAccepts, MainServes, WorkerAnswers DEF M!MainStep
<1>4. M!Next \/ UNCHANGED ManagementVars
  BY DEF Next, LoginStep, ManagementStep, LogStep, vars
<1>. QED
  BY <1>1, <1>2, <1>3, <1>4, SessionQuiet DEF M!Next

\* For any number of management sessions, and with strangers at either end: a command is run
\* only for an admin (remote_management), a client sends it only to a server that has the
\* password (pgexporter_remote_management_scram_sha256), both ends switch to TLS at the same
\* message, and a client reads the answer to its own command, although one main process
\* serves them all and every message may be cut off.
THEOREM SessionIsSound == Spec => []SessionSound
<1>1. SessionInv => SessionSound
  <2>. SUFFICES ASSUME SessionInv PROVE SessionSound
    OBVIOUS
  <2>0. Shapes /\ \A s \in Session : Places(s) /\ Queues(s) /\ Opening(s) /\ Once(s)
    BY DEF SessionInv, SessionOk
  <2>1. ASSUME NEW s \in Session, NEW i \in DOMAIN got[s]
        PROVE  /\ got[s][i].result \in M!Outcome(got[s][i].command)
               /\ got[s][i].command = setup[s].command
               /\ got[s][i].result = "ok" => ran[s] = << setup[s].command >>
    <3>1. got[s][i] \in Answers(s)
      BY <2>0, ElementOfSeq DEF Queues
    <3>. QED
      BY <3>1 DEF Answers
  <2>2. M!TypeOK
    <3>1. /\ setup \in Clients /\ mpc \in {M!Idle, << "stopped" >>} \cup ({"reading"} \X Session)
          /\ \A s \in Session : ran[s] \in {<< >>, << setup[s].command >>}
      BY <2>0 DEF Shapes, Once
    <3>2. /\ cpc \in [Session -> {"start", "ssl", "sasl", "continue", "final", "extra", "request",
                            "answer"} \cup M!ClientOver]
          /\ rpc \in [Session -> M!Login \cup {"success", "connect", "command", "answer", "gone"}]
      BY <2>0 DEF Shapes, Places
    <3>3. /\ ctls \in [Session -> BOOLEAN] /\ rtls \in [Session -> BOOLEAN]
          /\ conn \in [Session -> {"none", "queued", "main", "worker", "closed"}]
      BY <2>0 DEF Shapes, Places
    <3>. QED
      BY <2>1, <3>1, <3>2, <3>3 DEF M!TypeOK
  <2>3. M!AuthorisedOnly /\ M!ServerProved
    BY <2>0 DEF M!AuthorisedOnly, M!ServerProved, Once, Authorised
  <2>4. M!SameMode
    <3>1. ASSUME NEW s \in Session, rpc[s] \notin {"hello", "gone"}, NEW i \in DOMAIN c2r[s]
          PROVE  c2r[s][i].tls = rtls[s]
      <4>1. c2r[s][i] \in Requests(s)
        BY <2>0, ElementOfSeq DEF Queues
      <4>. QED
        BY <3>1, <4>1 DEF Requests
    <3>2. ASSUME NEW s \in Session, cpc[s] \notin {"start", "ssl"} \cup M!ClientOver, NEW i \in DOMAIN r2c[s],
                 r2c[s][i].tag # "rest"
          PROVE  r2c[s][i].tls = ctls[s]
      <4>1. r2c[s][i] \in Replies(s)
        BY <2>0, ElementOfSeq DEF Queues
      <4>2. ctls[s] = rtls[s]
        BY <2>0, <3>2 DEF Opening
      <4>. QED
        BY <3>2, <4>1, <4>2 DEF Replies
    <3>. QED
      BY <3>1, <3>2 DEF M!SameMode
  <2>5. M!AnswerIsOwn
    BY <2>1 DEF M!AnswerIsOwn
  <2>. QED
    BY <2>2, <2>3, <2>4, <2>5 DEF SessionSound
<1>2. Init => SessionInv
  BY InitSession DEF Init
<1>. QED
  BY <1>1, <1>2, StepSession, PTL DEF Spec
=============================================================================
