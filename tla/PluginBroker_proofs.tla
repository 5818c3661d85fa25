------------------------- MODULE PluginBroker_proofs -------------------------
(***************************************************************************)
(* Proofs about PluginBroker, for any plugins, tasks, accounts and bounds. *)
(***************************************************************************)
EXTENDS PluginBroker, TLAPS

CallRecords ==
    [pc : {"idle", "consent", "prompt", "wait", "clear", "record", "hand"},
     p : Plugins, req : 0..MaxAsks, token : Accounts \cup {0}, refused : BOOLEAN,
     said : Answers \cup {"none"}]
Replies == [word : Answers \cup {"none"}, at : {"none", "sent", "taken", "back", "over"}]

-----------------------------------------------------------------------------
(* The inductive invariant.                                                 *)
(*                                                                          *)
(* What a call will do with an answer is decided when the viewer clicks,    *)
(* and done some locks later: the invariant follows the answer from the     *)
(* page's reply over the prompt's channel to the call, and ties it to the   *)
(* viewer's last word, as the entry in memory and the one on the disk are.  *)

\* Nobody has seen the prompt r.
Fresh(r) == reply[r].word = "none" /\ answer[r] = "none" /\ shown # r

\* What the viewer must have said for the call c to hear the answer a.
Heard(c, a) ==
    /\ a = "always" => word[call[c].p] = "yes"
    /\ a \in {"allow", "always"} => ~call[c].refused

Sound(c) ==
    /\ call[c].req \in 0..asked
    /\ call[c].pc # "idle" <=> call[c].req # 0
    /\ call[c].pc \in {"consent", "prompt"} => Fresh(call[c].req)
    /\ call[c].refused => word[call[c].p] = "no"
    /\ Heard(c, call[c].said)
    /\ call[c].pc = "wait" =>
            Heard(c, reply[call[c].req].word) /\ Heard(c, answer[call[c].req])
    /\ call[c].pc = "hand" => ~call[c].refused

Registry == \A p \in Plugins :
    /\ consent[p] = "always" => word[p] \in Standing
    /\ disk.loads /\ disk.consent[p] = "always" => word[p] \in Standing

Numbers == shown <= asked /\ \A r \in Ids : r > asked => Fresh(r)

Unique == \A c, d \in Calls : call[c].req = call[d].req /\ call[c].req # 0 => c = d
Waited == \A r \in pending :
    \E c \in Calls : call[c].req = r /\ call[c].pc \in {"wait", "clear"}

IInv == TypeOK /\ Unique /\ Waited /\ Registry /\ Numbers /\ \A c \in Calls : Sound(c)

-----------------------------------------------------------------------------
(* Facts about states *)

LEMMA IdleTyped == Idle \in CallRecords
<1>1. (CHOOSE p \in Plugins : TRUE) \in Plugins
  BY BrokerConstants
<1> QED
  BY <1>1, BrokerConstants DEF Idle, CallRecords

\* What the types say of one call.
LEMMA CallTyped ==
  ASSUME TypeOK
  PROVE  /\ call \in [Calls -> CallRecords] /\ reply \in [Ids -> Replies]
         /\ \A c \in Calls : call[c].pc = "record" => call[c].said = "always"
BY DEF TypeOK, CallRecords, Replies

LEMMA Typed ==
  ASSUME /\ consent' \in [Plugins -> Consents]
         /\ disk' \in [loads : BOOLEAN, consent : [Plugins -> Consents]]
         /\ serving' \subseteq Plugins /\ account' \in Accounts \cup {0}
         /\ call' \in [Calls -> CallRecords]
         /\ \A c \in Calls : call'[c].pc = "record" => call'[c].said = "always"
         /\ pending' \subseteq Ids /\ shown' \in 0..MaxAsks /\ asked' \in 0..MaxAsks
         /\ answer' \in [Ids -> Answers \cup {"none"}]
         /\ reply' \in [Ids -> Replies]
         /\ word' \in [Plugins -> Words]
         /\ words' \in 0..MaxWords /\ fails' \in 0..MaxFails /\ ends' \in 0..MaxEnds
  PROVE  TypeOK'
BY DEF TypeOK, CallRecords, Replies

\* The number of a call under way is the number of a prompt.
LEMMA ReqIsId ==
  ASSUME IInv, NEW c \in Calls, call[c].pc # "idle"
  PROVE  call[c].req \in Ids /\ call[c].req \in 1..asked
<1>1. asked \in 0..MaxAsks /\ MaxAsks \in Nat
  BY BrokerConstants DEF IInv, TypeOK
<1> QED
  BY <1>1 DEF IInv, Sound, Ids

(* The viewer has agreed: some of the refused calls no longer are.          *)
LEMMA RelentsIs ==
  ASSUME call \in [Calls -> CallRecords], NEW agrees,
         call' = [c \in Calls |-> [call[c] EXCEPT !.refused = @ /\ c \notin agrees]]
  PROVE  /\ call' \in [Calls -> CallRecords]
         /\ \A c \in Calls : /\ call'[c].pc = call[c].pc /\ call'[c].p = call[c].p
                             /\ call'[c].req = call[c].req /\ call'[c].said = call[c].said
                             /\ call'[c].refused = (call[c].refused /\ c \notin agrees)
<1>1. ASSUME NEW c \in Calls
      PROVE  /\ call'[c] \in CallRecords
             /\ call'[c].pc = call[c].pc /\ call'[c].p = call[c].p
             /\ call'[c].req = call[c].req /\ call'[c].said = call[c].said
             /\ call'[c].refused = (call[c].refused /\ c \notin agrees)
  <2> DEFINE r == call[c]
             no == r.refused /\ c \notin agrees
  <2>1. r \in CallRecords /\ call'[c] = [r EXCEPT !.refused = no]
    OBVIOUS
  <2>2. no \in BOOLEAN
    OBVIOUS
  <2> HIDE DEF r, no
  <2>3. /\ [r EXCEPT !.refused = no] \in CallRecords
        /\ [r EXCEPT !.refused = no].pc = r.pc /\ [r EXCEPT !.refused = no].p = r.p
        /\ [r EXCEPT !.refused = no].req = r.req /\ [r EXCEPT !.refused = no].said = r.said
        /\ [r EXCEPT !.refused = no].refused = no
    BY <2>1, <2>2 DEF CallRecords
  <2>4. /\ call'[c] \in CallRecords
        /\ call'[c].pc = r.pc /\ call'[c].p = r.p
        /\ call'[c].req = r.req /\ call'[c].said = r.said /\ call'[c].refused = no
    BY <2>1, <2>3
  <2> QED
    BY <2>4 DEF r, no
<1>2. call' \in [Calls -> CallRecords]
  BY <1>1
<1> QED
  BY <1>1, <1>2

LEMMA AgreedIs ==
  ASSUME call \in [Calls -> CallRecords], NEW p \in Plugins, call' = Agreed(p)
  PROVE  /\ call' \in [Calls -> CallRecords]
         /\ \A c \in Calls : /\ call'[c].pc = call[c].pc /\ call'[c].p = call[c].p
                             /\ call'[c].req = call[c].req /\ call'[c].said = call[c].said
                             /\ call'[c].refused = (call[c].refused /\ call[c].p # p)
<1> DEFINE agrees == {c \in Calls : call[c].p = p}
<1>1. \A c \in Calls : c \notin agrees <=> call[c].p # p
  OBVIOUS
<1> HIDE DEF agrees
<1>2. call' = [c \in Calls |-> [call[c] EXCEPT !.refused = @ /\ c \notin agrees]]
  <2>1. ASSUME NEW c \in Calls
        PROVE  [call[c] EXCEPT !.refused = @ /\ call[c].p # p]
                 = [call[c] EXCEPT !.refused = @ /\ c \notin agrees]
    <3>1. (call[c].refused /\ call[c].p # p) = (call[c].refused /\ c \notin agrees)
      BY <1>1
    <3> QED
      BY <3>1, Zenon
  <2>2. call' = [c \in Calls |-> [call[c] EXCEPT !.refused = @ /\ call[c].p # p]]
    BY DEF Agreed
  <2> QED
    BY <2>1, <2>2, Zenon
<1>3. /\ call' \in [Calls -> CallRecords]
      /\ \A c \in Calls : /\ call'[c].pc = call[c].pc /\ call'[c].p = call[c].p
                          /\ call'[c].req = call[c].req /\ call'[c].said = call[c].said
                          /\ call'[c].refused = (call[c].refused /\ c \notin agrees)
  BY <1>2, RelentsIs
<1>4. ASSUME NEW c \in Calls
      PROVE  call'[c].refused = (call[c].refused /\ call[c].p # p)
  <2>1. call'[c].refused = (call[c].refused /\ c \notin agrees)
    BY <1>3
  <2> QED
    BY <1>1, <2>1, Zenon
<1> QED
  BY <1>3, <1>4, Zenon

(* A call that a step does not touch.                                       *)
LEMMA SameSound ==
  ASSUME TypeOK, NEW d \in Calls, Sound(d), call'[d] = call[d], word' = word,
         asked' \in Nat, asked <= asked',
         call[d].req # 0 => /\ reply'[call[d].req].word = reply[call[d].req].word
                            /\ answer'[call[d].req] = answer[call[d].req],
         shown' = shown \/ shown' # call[d].req
  PROVE  Sound(d)'
<1>1. call'[d].req \in 0..asked'
  <2>1. asked \in Nat /\ call[d].req \in Nat
    BY BrokerConstants DEF TypeOK
  <2> QED
    BY <2>1 DEF Sound
<1>2. call[d].pc # "idle" => call[d].req # 0
  BY DEF Sound
<1>3. call'[d].pc \in {"consent", "prompt"} => Fresh(call[d].req)'
  BY <1>2 DEF Sound, Fresh
<1> QED
  BY <1>1, <1>2, <1>3 DEF Sound, Heard

(* The registry after a save, or after one that failed.                     *)
LEMMA SavesKeep ==
  ASSUME TypeOK, Registry, NEW new \in [Plugins -> Consents], NEW saved \in BOOLEAN,
         Saves(new, saved),
         \A p \in Plugins : new[p] = "always" => word'[p] \in Standing,
         ~saved => \A p \in Plugins : word[p] \in Standing => word'[p] \in Standing
  PROVE  /\ Registry'
         /\ consent' \in [Plugins -> Consents]
         /\ disk' \in [loads : BOOLEAN, consent : [Plugins -> Consents]]
         /\ fails' \in 0..MaxFails
<1>1. CASE saved /\ disk' = [loads |-> TRUE, consent |-> new] /\ UNCHANGED fails
  BY <1>1 DEF Saves, Registry, TypeOK
<1>2. CASE /\ ~saved /\ fails < MaxFails /\ fails' = fails + 1
           /\ disk' \in {disk, [disk EXCEPT !.loads = FALSE]}
  <2>1. fails' \in 0..MaxFails
    BY <1>2, BrokerConstants DEF TypeOK
  <2>2. disk' \in [loads : BOOLEAN, consent : [Plugins -> Consents]]
    BY <1>2 DEF TypeOK
  <2>3. Registry'
    BY <1>2 DEF Saves, Registry, TypeOK
  <2> QED
    BY <1>2, <2>1, <2>2, <2>3 DEF Saves
<1> QED
  BY <1>1, <1>2 DEF Saves

(* The calls and prompts when a step leaves them alone.                     *)
LEMMA CallsRest ==
  ASSUME IInv, UNCHANGED <<call, prompts, word>>
  PROVE  Unique' /\ Waited' /\ Numbers' /\ \A c \in Calls : Sound(c)'
<1> USE DEF prompts
<1>1. Unique' /\ Waited'
  BY DEF IInv, Unique, Waited
<1>2. Numbers'
  BY DEF IInv, Numbers, Fresh
<1>3. \A c \in Calls : Sound(c)'
  BY DEF IInv, Sound, Heard, Fresh
<1> QED
  BY <1>1, <1>2, <1>3

-----------------------------------------------------------------------------
(* The viewer *)

LEMMA AgreedKeeps ==
  ASSUME IInv, NEW p \in Plugins, call' = Agreed(p), UNCHANGED prompts,
         NEW w \in Standing, word[p] = "yes" => w = "yes",
         word' = [word EXCEPT ![p] = w]
  PROVE  /\ call' \in [Calls -> CallRecords]
         /\ \A c \in Calls : call'[c].pc = "record" => call'[c].said = "always"
         /\ Unique' /\ Waited' /\ Numbers' /\ \A c \in Calls : Sound(c)'
<1> USE DEF prompts
<1>0. /\ call \in [Calls -> CallRecords] /\ word \in [Plugins -> Words]
      /\ \A c \in Calls : call[c].pc = "record" => call[c].said = "always"
  BY CallTyped DEF IInv, TypeOK
<1>2. \A c \in Calls :
          /\ call'[c].pc = call[c].pc /\ call'[c].p = call[c].p
          /\ call'[c].req = call[c].req /\ call'[c].said = call[c].said
          /\ call'[c].refused = (call[c].refused /\ call[c].p # p)
  BY <1>0, AgreedIs
<1>3. call' \in [Calls -> CallRecords]
  BY <1>0, AgreedIs
<1>4. Unique' /\ Waited'
  BY <1>2 DEF IInv, Unique, Waited
<1>5. Numbers'
  BY DEF IInv, Numbers, Fresh
<1>6. ASSUME NEW c \in Calls PROVE Sound(c)'
  <2>0. /\ call[c].p \in Plugins /\ call'[c].p = call[c].p
        /\ word[call[c].p] = "yes" => word'[call[c].p] = "yes"
        /\ call'[c].refused => call[c].refused
    BY <1>0, <1>2 DEF CallRecords
  <2>2. Sound(c)
    BY DEF IInv
  <2>4. \A a : Heard(c, a) => Heard(c, a)'
    BY <2>0 DEF Heard
  <2>1. /\ Heard(c, call[c].said)'
        /\ call'[c].pc = "wait" =>
              Heard(c, reply[call[c].req].word)' /\ Heard(c, answer[call[c].req])'
    BY <1>2, <2>2, <2>4 DEF Sound
  <2>3. call'[c].refused => word'[call'[c].p] = "no"
    BY <1>0, <1>2, <2>2 DEF Sound, CallRecords
  <2> QED
    BY <1>2, <2>1, <2>2, <2>3 DEF Sound, Fresh
<1> QED
  BY <1>0, <1>2, <1>3, <1>4, <1>5, <1>6

LEMMA ViewerKeeps ==
  ASSUME IInv, NEW p \in Plugins, Noted(p), Viewer(p)
  PROVE  IInv'
<1>0. /\ TypeOK /\ Registry /\ word \in [Plugins -> Words]
      /\ consent \in [Plugins -> Consents]
  BY DEF IInv, TypeOK
<1>1. /\ words' \in 0..MaxWords /\ word' \in [Plugins -> Words]
      /\ UNCHANGED <<account, prompts, ends>>
      /\ serving' \subseteq Plugins
  <2>1. \E said \in {"", "yes", "granted", "no"} : Says(p, said)
    <3>1. CASE Revoke(p)
      <4>1. PICK saved \in BOOLEAN : Says(p, IF saved THEN "no" ELSE "")
        BY <3>1 DEF Revoke
      <4>2. (IF saved THEN "no" ELSE "") \in {"", "yes", "granted", "no"}
        OBVIOUS
      <4> QED
        BY <4>1, <4>2
    <3>2. CASE Reset(p) \/ Install(p) \/ Uninstall(p)
      <4>1. Says(p, "yes") \/ Says(p, "granted") \/ Says(p, "")
        BY <3>2 DEF Reset, Install, Uninstall
      <4> QED
        BY <4>1
    <3> QED
      BY <3>1, <3>2 DEF Viewer
  <2>2. words' \in 0..MaxWords
    <3>1. words' = words + 1 /\ words < MaxWords
      BY <2>1 DEF Says
    <3> QED
      BY <1>0, <3>1, BrokerConstants DEF TypeOK
  <2>3. word' \in [Plugins -> Words]
    BY <1>0, <2>1 DEF Says, Words, Standing
  <2> QED
    BY <1>0, <2>2, <2>3 DEF TypeOK, Viewer, Revoke, Reset, Install, Uninstall
<1>2. SUFFICES
        /\ Registry' /\ consent' \in [Plugins -> Consents]
        /\ disk' \in [loads : BOOLEAN, consent : [Plugins -> Consents]]
        /\ fails' \in 0..MaxFails
        /\ call' \in [Calls -> CallRecords]
        /\ \A c \in Calls : call'[c].pc = "record" => call'[c].said = "always"
        /\ Unique' /\ Waited' /\ Numbers' /\ \A c \in Calls : Sound(c)'
  <2>1. /\ pending' \subseteq Ids /\ shown' \in 0..MaxAsks /\ asked' \in 0..MaxAsks
        /\ answer' \in [Ids -> Answers \cup {"none"}] /\ reply' \in [Ids -> Replies]
        /\ account' \in Accounts \cup {0} /\ ends' \in 0..MaxEnds
    BY <1>0, <1>1 DEF TypeOK, prompts, Replies
  <2> QED
    BY <1>1, <1>2, <2>1, Typed DEF IInv
<1>3. ASSUME call' = call
      PROVE  /\ call' \in [Calls -> CallRecords]
             /\ \A c \in Calls : call'[c].pc = "record" => call'[c].said = "always"
  BY <1>0, <1>3, CallTyped
<1>4. ASSUME NEW saved \in BOOLEAN, SetConsent(p, "revoked", saved),
             Says(p, IF saved THEN "no" ELSE ""), call' = call
      PROVE  /\ Registry' /\ consent' \in [Plugins -> Consents]
             /\ disk' \in [loads : BOOLEAN, consent : [Plugins -> Consents]]
             /\ fails' \in 0..MaxFails
             /\ Unique' /\ Waited' /\ Numbers' /\ \A c \in Calls : Sound(c)'
  <2>1. word' = IF saved THEN [word EXCEPT ![p] = "no"] ELSE word
    BY <1>4 DEF Says
  <2> DEFINE new == [consent EXCEPT ![p] = "revoked"]
  <2>2. new \in [Plugins -> Consents] /\ Saves(new, saved)
    BY <1>0, <1>4 DEF SetConsent, Consents
  <2>3. \A q \in Plugins : new[q] = "always" => word'[q] \in Standing
    BY <1>0, <2>1 DEF Registry
  <2>4. /\ Registry' /\ consent' \in [Plugins -> Consents]
        /\ disk' \in [loads : BOOLEAN, consent : [Plugins -> Consents]]
        /\ fails' \in 0..MaxFails
    BY <1>0, <2>1, <2>2, <2>3, SavesKeep
  <2>5. Unique' /\ Waited' /\ Numbers'
    BY <1>1, <1>4 DEF IInv, Unique, Waited, Numbers, Fresh, prompts
  <2>6. ASSUME NEW c \in Calls PROVE Sound(c)'
    <3>1. Sound(c) /\ call[c].p \in Plugins
      BY CallTyped DEF IInv, CallRecords
    <3>2. CASE call[c].p # p \/ ~saved
      <4>1. word'[call[c].p] = word[call[c].p]
        BY <1>0, <2>1, <3>1, <3>2
      <4> QED
        BY <1>1, <1>4, <3>1, <4>1 DEF Sound, Heard, Fresh, prompts
    <3>3. CASE call[c].p = p /\ saved
      <4>1. word'[call[c].p] = "no"
        BY <1>0, <2>1, <3>3
      <4>2. /\ call[c].said # "always"
            /\ call[c].pc = "wait" =>
                  reply[call[c].req].word # "always" /\ answer[call[c].req] # "always"
        BY <3>3 DEF Noted
      <4> QED
        BY <1>1, <1>4, <3>1, <4>1, <4>2 DEF Sound, Heard, Fresh, prompts
    <3> QED
      BY <3>2, <3>3
  <2> QED
    BY <2>4, <2>5, <2>6
<1>5. CASE Revoke(p)
  BY <1>3, <1>4, <1>5 DEF Revoke
<1>6. ASSUME NEW saved \in BOOLEAN, Saves([consent EXCEPT ![p] = "always"], saved),
             NEW w \in Standing, Says(p, w)
      PROVE  /\ Registry' /\ consent' \in [Plugins -> Consents]
             /\ disk' \in [loads : BOOLEAN, consent : [Plugins -> Consents]]
             /\ fails' \in 0..MaxFails
             /\ word' = [word EXCEPT ![p] = w]
  <2>1. word' = [word EXCEPT ![p] = w]
    BY <1>6 DEF Says, Standing
  <2> DEFINE new == [consent EXCEPT ![p] = "always"]
  <2>2. new \in [Plugins -> Consents] /\ Saves(new, saved)
    BY <1>0, <1>6 DEF Consents
  <2>3. \A q \in Plugins : new[q] = "always" \/ word[q] \in Standing => word'[q] \in Standing
    BY <1>0, <2>1 DEF Registry
  <2> QED
    BY <1>0, <2>1, <2>2, <2>3, SavesKeep
<1>7. CASE Reset(p) \/ Install(p)
  <2>1. call' = Agreed(p)
    BY <1>7 DEF Reset, Install
  <2>2. PICK saved \in BOOLEAN, w \in Standing :
            /\ Saves([consent EXCEPT ![p] = "always"], saved) /\ Says(p, w)
            /\ word[p] = "yes" => w = "yes"
    BY <1>7 DEF Reset, Install, SetConsent, Standing
  <2>3. /\ Registry' /\ consent' \in [Plugins -> Consents]
        /\ disk' \in [loads : BOOLEAN, consent : [Plugins -> Consents]]
        /\ fails' \in 0..MaxFails /\ word' = [word EXCEPT ![p] = w]
    BY <1>6, <2>2
  <2> QED
    BY <1>1, <2>1, <2>2, <2>3, AgreedKeeps
<1>8. CASE Uninstall(p)
  <2>1. PICK saved \in BOOLEAN : Saves([consent EXCEPT ![p] = "gone"], saved)
    BY <1>8 DEF Uninstall
  <2>2. word' = word /\ call' = call
    BY <1>8 DEF Uninstall, Says
  <2> DEFINE new == [consent EXCEPT ![p] = "gone"]
  <2>3. new \in [Plugins -> Consents]
    BY <1>0 DEF Consents
  <2>4. \A q \in Plugins : new[q] = "always" => word'[q] \in Standing
    BY <1>0, <2>2 DEF Registry
  <2>5. /\ Registry' /\ consent' \in [Plugins -> Consents]
        /\ disk' \in [loads : BOOLEAN, consent : [Plugins -> Consents]]
        /\ fails' \in 0..MaxFails
    BY <1>0, <2>1, <2>2, <2>3, <2>4, SavesKeep
  <2> QED
    BY <1>1, <1>3, <2>2, <2>5, CallsRest
<1> QED
  BY <1>5, <1>7, <1>8 DEF Viewer

-----------------------------------------------------------------------------
(* The rest of the program *)

LEMMA RegistryRests ==
  ASSUME IInv, UNCHANGED <<registry, word, fails>>
  PROVE  /\ Registry' /\ consent' \in [Plugins -> Consents]
         /\ disk' \in [loads : BOOLEAN, consent : [Plugins -> Consents]]
         /\ fails' \in 0..MaxFails
BY DEF IInv, TypeOK, Registry, registry

(* A step of one call: the others, and the prompts of others, stay.         *)
LEMMA OneCallKeeps ==
  ASSUME IInv, NEW c \in Calls,
         \A d \in Calls \ {c} : call'[d] = call[d],
         UNCHANGED <<serving, account, asked, reply, word, words, ends>>,
         answer' = answer \/ answer' = [answer EXCEPT ![call[c].req] = "none"],
         call[c].pc # "idle",
         call' \in [Calls -> CallRecords],
         call'[c].pc = "record" => call'[c].said = "always",
         call'[c].req \in {0, call[c].req},
         pending' \subseteq pending \cup {call[c].req},
         \A r \in pending' : r = call[c].req =>
             call'[c].req = r /\ call'[c].pc \in {"wait", "clear"},
         shown' \in {shown, call[c].req},
         Sound(c)',
         Registry' /\ consent' \in [Plugins -> Consents],
         disk' \in [loads : BOOLEAN, consent : [Plugins -> Consents]],
         fails' \in 0..MaxFails
  PROVE  IInv'
<1>0. /\ TypeOK /\ Unique /\ Waited /\ Numbers /\ call \in [Calls -> CallRecords]
      /\ \A d \in Calls : call[d].pc = "record" => call[d].said = "always"
      /\ reply \in [Ids -> Replies]
  BY CallTyped DEF IInv
<1>1. call[c].req \in Ids /\ call[c].req \in 1..asked
  BY ReqIsId
<1>2. asked \in Nat /\ MaxAsks \in Nat /\ asked \in 0..MaxAsks
  BY <1>0, BrokerConstants DEF TypeOK
<1>3. /\ pending' \subseteq Ids /\ shown' \in 0..MaxAsks
      /\ answer' \in [Ids -> Answers \cup {"none"}]
  <2>1. pending' \subseteq Ids
    BY <1>0, <1>1 DEF TypeOK
  <2>2. shown' \in 0..MaxAsks
    BY <1>0, <1>1 DEF TypeOK, Ids
  <2>3. answer' \in [Ids -> Answers \cup {"none"}]
    BY <1>0, <1>1 DEF TypeOK
  <2> QED
    BY <2>1, <2>2, <2>3
<1>4. TypeOK'
  <2>1. /\ serving' \subseteq Plugins /\ account' \in Accounts \cup {0}
        /\ asked' \in 0..MaxAsks /\ reply' \in [Ids -> Replies]
        /\ word' \in [Plugins -> Words]
        /\ words' \in 0..MaxWords /\ ends' \in 0..MaxEnds
    BY <1>0 DEF TypeOK
  <2>2. \A d \in Calls : call'[d].pc = "record" => call'[d].said = "always"
    BY <1>0
  <2> QED
    BY <1>3, <2>1, <2>2, Typed
<1>5. Unique'
  BY <1>0 DEF Unique
<1>6. Waited'
  <2>1. ASSUME NEW r \in pending'
        PROVE  \E d \in Calls : call'[d].req = r /\ call'[d].pc \in {"wait", "clear"}
    <3>1. CASE r = call[c].req
      BY <3>1
    <3>2. CASE r # call[c].req
      <4>1. PICK d \in Calls : call[d].req = r /\ call[d].pc \in {"wait", "clear"}
        BY <1>0, <2>1, <3>2 DEF Waited
      <4> QED
        BY <3>2, <4>1
    <3> QED
      BY <3>1, <3>2
  <2> QED
    BY <2>1 DEF Waited
<1>7. Numbers'
  BY <1>0, <1>1, <1>2 DEF Numbers, Fresh, TypeOK, Ids
<1>8. ASSUME NEW d \in Calls \ {c} PROVE Sound(d)'
  <2>1. Sound(d)
    BY DEF IInv
  <2>2. call[d].req # call[c].req
    <3>1. call[c].req # 0
      BY <1>1
    <3> QED
      BY <1>0, <3>1 DEF Unique
  <2>3. call[d].req # 0 => answer'[call[d].req] = answer[call[d].req]
    <3>1. CASE answer' = answer
      BY <3>1
    <3>2. CASE answer' = [answer EXCEPT ![call[c].req] = "none"]
      <4>1. call[d].req # 0 => call[d].req \in Ids
        BY <1>2, <2>1 DEF Sound, Ids
      <4> QED
        BY <1>0, <2>2, <3>2, <4>1 DEF TypeOK
    <3> QED
      BY <3>1, <3>2
  <2> QED
    BY <1>0, <1>2, <2>1, <2>2, <2>3, SameSound
<1> QED
  BY <1>4, <1>5, <1>6, <1>7, <1>8 DEF IInv

LEMMA ServeKeeps ==
  ASSUME IInv, NEW c \in Calls, Serve(c)
  PROVE  IInv'
<1>0. /\ TypeOK /\ Numbers /\ Registry /\ Sound(c) /\ call \in [Calls -> CallRecords]
      /\ (call[c].pc = "record" => call[c].said = "always")
      /\ reply \in [Ids -> Replies] /\ consent \in [Plugins -> Consents]
      /\ call[c] \in CallRecords /\ call[c].p \in Plugins
  BY CallTyped DEF IInv, TypeOK, CallRecords
<1>1. call[c].pc # "idle"
  BY DEF Serve, ReadConsent, Prompt, Answered, TimesOut, Clear, RecordAlways, HandOver
<1>2. call[c].req \in Ids /\ call[c].req \in 1..asked /\ call[c].req # 0
  BY <1>1, ReqIsId
<1> USE DEF registry, prompts, bounds
<1>3. ASSUME Done(c)
      PROVE  /\ call' \in [Calls -> CallRecords] /\ call'[c].pc = "idle"
             /\ call'[c].req = 0 /\ \A d \in Calls \ {c} : call'[d] = call[d]
             /\ ~call'[c].refused /\ call'[c].said = "none"
  BY <1>0, <1>3, IdleTyped DEF Done, Idle
<1>4. ASSUME NEW pc \in {"consent", "prompt", "wait", "clear", "record", "hand"}, Goto(c, pc)
      PROVE  /\ call' \in [Calls -> CallRecords] /\ call'[c].pc = pc
             /\ call'[c].req = call[c].req /\ call'[c].said = call[c].said
             /\ call'[c].p = call[c].p /\ call'[c].refused = call[c].refused
             /\ \A d \in Calls \ {c} : call'[d] = call[d]
  BY <1>0, <1>4 DEF Goto, CallRecords
<1>5. ASSUME Done(c), UNCHANGED <<registry, serving, account, answer, shown, reply, asked,
                                  word, bounds>>,
             pending' = pending, call[c].pc \notin {"wait", "clear"}
      PROVE  IInv'
  <2>1. Sound(c)'
    BY <1>0, <1>3, <1>5 DEF Sound, Heard, TypeOK
  <2>2. call[c].req \notin pending'
    BY <1>2, <1>5 DEF IInv, Waited, Unique
  <2> QED
    BY <1>1, <1>3, <1>5, <2>1, <2>2, RegistryRests, OneCallKeeps
<1>6. CASE ReadConsent(c)
  <2>1. consent[call[c].p] = "always" => ~call[c].refused
    BY <1>0 DEF Registry, Sound, Standing
  <2>2. CASE consent[call[c].p] = "revoked"
    BY <1>5, <1>6, <2>2 DEF ReadConsent
  <2>3. CASE consent[call[c].p] # "revoked"
    <3>1. call[c].pc = "consent" /\ UNCHANGED <<registry, serving, account, prompts, word, bounds>>
      BY <1>6 DEF ReadConsent
    <3>2. \/ Goto(c, "hand") /\ consent[call[c].p] = "always"
          \/ Goto(c, "prompt")
      BY <1>6, <2>3 DEF ReadConsent
    <3>3. call[c].req \notin pending'
      BY <1>2, <3>1 DEF IInv, Waited, Unique
    <3>4. CASE Goto(c, "hand") /\ consent[call[c].p] = "always"
      <4>1. call'[c].pc = "hand" /\ ~call'[c].refused
        BY <1>4, <2>1, <3>4
      <4>2. Sound(c)'
        BY <1>0, <1>2, <1>4, <3>1, <3>4, <4>1 DEF Sound, Heard
      <4> QED
        BY <1>1, <1>4, <3>1, <3>3, <3>4, <4>2, RegistryRests, OneCallKeeps
    <3>5. CASE Goto(c, "prompt")
      <4>1. call'[c].pc = "prompt"
        BY <1>4, <3>5
      <4>2. Sound(c)'
        BY <1>0, <1>2, <1>4, <3>1, <3>5, <4>1 DEF Sound, Heard, Fresh
      <4> QED
        BY <1>1, <1>4, <3>1, <3>3, <3>5, <4>2, RegistryRests, OneCallKeeps
    <3> QED
      BY <3>2, <3>4, <3>5
  <2> QED
    BY <2>2, <2>3
<1>7. CASE Prompt(c)
  <2>1. Goto(c, "wait")
    BY <1>7 DEF Prompt
  <2>2. Sound(c)'
    <3>1. reply[call[c].req].word = "none" /\ answer[call[c].req] = "none"
      BY <1>0, <1>7 DEF Prompt, Sound, Fresh
    <3> QED
      BY <1>0, <1>4, <1>7, <2>1, <3>1 DEF Prompt, Sound, Heard
  <2> QED
    BY <1>1, <1>4, <1>7, <2>1, <2>2, RegistryRests, OneCallKeeps DEF Prompt
<1>8. CASE Answered(c)
  <2>1. answer[call[c].req] \in Answers \cup {"none"}
    BY <1>0, <1>2 DEF TypeOK
  <2>2. /\ call' \in [Calls -> CallRecords] /\ call'[c].pc = "clear"
        /\ call'[c].req = call[c].req /\ call'[c].said = answer[call[c].req]
        /\ call'[c].p = call[c].p /\ call'[c].refused = call[c].refused
        /\ \A d \in Calls \ {c} : call'[d] = call[d]
    BY <1>0, <1>8, <2>1 DEF Answered, CallRecords
  <2>3. Sound(c)'
    BY <1>0, <1>8, <2>2 DEF Answered, Sound, Heard
  <2> QED
    BY <1>1, <1>8, <2>2, <2>3, RegistryRests, OneCallKeeps DEF Answered
<1>9. CASE TimesOut(c)
  <2>1. Goto(c, "clear")
    BY <1>9 DEF TimesOut
  <2>2. Sound(c)'
    BY <1>0, <1>4, <1>9, <2>1 DEF TimesOut, Sound, Heard
  <2> QED
    BY <1>1, <1>4, <1>9, <2>1, <2>2, RegistryRests, OneCallKeeps DEF TimesOut
<1>10. CASE Clear(c)
  <2>0. /\ call[c].pc = "clear" /\ pending' = pending \ {call[c].req}
        /\ UNCHANGED <<registry, serving, account, answer, shown, reply, asked, word, bounds>>
    BY <1>10 DEF Clear
  <2>1. CASE call[c].said = "allow"
    <3>1. Goto(c, "hand")
      BY <1>10, <2>1 DEF Clear
    <3>2. Sound(c)'
      BY <1>0, <1>2, <1>4, <2>0, <2>1, <3>1 DEF Sound, Heard
    <3> QED
      BY <1>1, <1>4, <2>0, <3>1, <3>2, RegistryRests, OneCallKeeps
  <2>3. CASE call[c].said = "always"
    <3>1. Goto(c, "record")
      BY <1>10, <2>3 DEF Clear
    <3>2. Sound(c)'
      BY <1>0, <1>2, <1>4, <2>0, <3>1 DEF Sound, Heard
    <3> QED
      BY <1>1, <1>4, <2>0, <2>3, <3>1, <3>2, RegistryRests, OneCallKeeps
  <2>2. CASE call[c].said \notin {"allow", "always"}
    <3>1. Done(c)
      BY <1>10, <2>2 DEF Clear
    <3>2. call[c].req \notin pending'
      BY <2>0
    <3>3. Sound(c)'
      BY <1>0, <1>3, <2>0, <3>1 DEF Sound, Heard, TypeOK
    <3> QED
      BY <1>1, <1>3, <2>0, <3>1, <3>2, <3>3, RegistryRests, OneCallKeeps
  <2> QED
    BY <2>1, <2>2, <2>3
<1>11. CASE RecordAlways(c)
  <2>1. Goto(c, "hand") /\ call[c].said = "always" /\ word' = word
    BY <1>0, <1>11 DEF RecordAlways
  <2>2. word[call[c].p] = "yes" /\ ~call[c].refused
    BY <1>0, <2>1 DEF Sound, Heard
  <2>3. /\ Registry' /\ consent' \in [Plugins -> Consents]
        /\ disk' \in [loads : BOOLEAN, consent : [Plugins -> Consents]]
        /\ fails' \in 0..MaxFails
    <3>1. CASE UNCHANGED <<registry, fails>>
      BY <2>1, <3>1, RegistryRests
    <3>2. CASE \E saved \in BOOLEAN : SetConsent(call[c].p, "always", saved)
      <4> DEFINE new == [consent EXCEPT ![call[c].p] = "always"]
      <4>1. PICK saved \in BOOLEAN : Saves(new, saved)
        BY <3>2 DEF SetConsent
      <4>2. new \in [Plugins -> Consents]
        BY <1>0 DEF Consents
      <4>3. \A q \in Plugins : new[q] = "always" => word'[q] \in Standing
        BY <1>0, <2>1, <2>2 DEF Registry, Standing
      <4> QED
        BY <1>0, <2>1, <4>1, <4>2, <4>3, SavesKeep
    <3> QED
      BY <1>11, <3>1, <3>2 DEF RecordAlways
  <2>4. Sound(c)'
    BY <1>0, <1>4, <1>11, <2>1, <2>2 DEF RecordAlways, Sound, Heard
  <2>5. call[c].req \notin pending'
    BY <1>2, <1>11 DEF RecordAlways, IInv, Waited, Unique
  <2> QED
    BY <1>1, <1>4, <1>11, <2>1, <2>3, <2>4, <2>5, OneCallKeeps DEF RecordAlways
<1>12. CASE HandOver(c)
  BY <1>5, <1>12 DEF HandOver
<1> QED
  BY <1>6, <1>7, <1>8, <1>9, <1>10, <1>11, <1>12 DEF Serve

(* A call that begins takes a new number.                                   *)
LEMMA AskKeeps ==
  ASSUME IInv, NEW c \in Calls, NEW p \in Plugins, Ask(c, p)
  PROVE  IInv'
<1> USE DEF registry, prompts, bounds
<1>0. /\ TypeOK /\ Unique /\ Waited /\ Numbers /\ call \in [Calls -> CallRecords]
      /\ \A d \in Calls : call[d].pc = "record" => call[d].said = "always"
      /\ asked \in Nat /\ MaxAsks \in Nat
  BY CallTyped, BrokerConstants DEF IInv, TypeOK
<1>1. /\ asked' = asked + 1 /\ asked' \in 1..MaxAsks
      /\ UNCHANGED <<registry, serving, account, pending, answer, shown, reply, word, bounds>>
  BY <1>0 DEF Ask
<1>2. /\ call' \in [Calls -> CallRecords]
      /\ call'[c].pc = "consent" /\ call'[c].p = p /\ call'[c].req = asked'
      /\ call'[c].said = "none" /\ call'[c].refused = (word[p] = "no")
      /\ \A d \in Calls \ {c} : call'[d] = call[d]
  <2>1. account \in Accounts \cup {0}
    BY <1>0 DEF TypeOK
  <2>2. call' = [call EXCEPT ![c] = [Idle EXCEPT !.pc = "consent", !.p = p,
                    !.req = asked', !.token = account, !.refused = word[p] = "no"]]
    BY DEF Ask
  <2>3. Idle.said = "none"
    BY DEF Idle
  <2>4. (word[p] = "no") \in BOOLEAN /\ asked' \in 0..MaxAsks
    BY <1>1
  <2>5. call'[c] \in CallRecords
    BY <1>0, <2>1, <2>2, <2>4, IdleTyped DEF CallRecords
  <2>6. /\ call'[c].pc = "consent" /\ call'[c].p = p /\ call'[c].req = asked'
        /\ call'[c].said = "none"
        /\ \A d \in Calls \ {c} : call'[d] = call[d]
    BY <1>0, <2>2, <2>3, IdleTyped DEF CallRecords
  <2>7. call'[c].refused = (word[p] = "no")
    BY <1>0, <2>2, IdleTyped DEF CallRecords
  <2> QED
    BY <1>0, <2>2, <2>5, <2>6, <2>7
<1>3. \A d \in Calls : call[d].req <= asked /\ call[d].req \in Nat
  BY <1>0 DEF IInv, Sound
<1>4. call[c].req = 0
  BY DEF Ask, IInv, Sound
<1>5. Unique'
  BY <1>0, <1>1, <1>2, <1>3 DEF Unique
<1>6. Waited'
  BY <1>0, <1>1, <1>2 DEF Waited, Ask
<1>7. Numbers' /\ reply'[asked'].word = "none" /\ answer'[asked'] = "none" /\ shown' # asked'
  <2>1. shown \in Nat
    BY <1>0 DEF TypeOK
  <2>2. reply[asked'].word = "none" /\ answer[asked'] = "none" /\ shown # asked'
    BY <1>0, <1>1, <2>1 DEF Numbers, Ids, Fresh
  <2> QED
    BY <1>0, <1>1, <2>1, <2>2 DEF Numbers, Ids, Fresh
<1>8. Sound(c)'
  <2>1. call'[c].req \in 0..asked' /\ call'[c].req # 0
    BY <1>1, <1>2
  <2>2. Heard(c, call[c].said)'
    BY <1>2 DEF Heard
  <2>3. Fresh(call[c].req)'
    BY <1>2, <1>7 DEF Fresh
  <2>4. call'[c].refused => word'[call'[c].p] = "no"
    BY <1>1, <1>2
  <2> QED
    BY <1>2, <2>1, <2>2, <2>3, <2>4 DEF Sound
<1>9. ASSUME NEW d \in Calls \ {c} PROVE Sound(d)'
  <2>1. Sound(d)
    BY DEF IInv
  <2> QED
    BY <1>0, <1>1, <1>2, <2>1, SameSound
<1>10. TypeOK'
  <2>1. \A d \in Calls : call'[d].pc = "record" => call'[d].said = "always"
    BY <1>0, <1>2
  <2> QED
    BY <1>0, <1>1, <1>2, <2>1, Typed DEF TypeOK, Replies
<1>11. Registry'
  BY <1>1 DEF IInv, Registry
<1> QED
  BY <1>5, <1>6, <1>7, <1>8, <1>9, <1>10, <1>11 DEF IInv

-----------------------------------------------------------------------------
(* The page *)

LEMMA RespondKeeps ==
  ASSUME IInv, NEW r \in Ids, NEW said \in Answers, Respond(r, said)
  PROVE  IInv'
<1> USE DEF registry, prompts, bounds
<1> DEFINE asks == {c \in Calls : call[c].req = r}
           of == {call[c].p : c \in asks}
           agrees == CASE said = "deny" -> {} [] said = "allow" -> asks
                       [] said = "always" -> {c \in Calls : call[c].p \in of}
<1>0. /\ TypeOK /\ Unique /\ Waited /\ Numbers /\ call \in [Calls -> CallRecords]
      /\ \A d \in Calls : call[d].pc = "record" => call[d].said = "always"
      /\ reply \in [Ids -> Replies] /\ word \in [Plugins -> Words]
  BY CallTyped DEF IInv, TypeOK
<1>1. /\ r = shown
      /\ reply' = [reply EXCEPT ![r] = [word |-> said, at |-> "sent"]]
      /\ call' = [c \in Calls |-> [call[c] EXCEPT !.refused = @ /\ c \notin agrees]]
      /\ word' = [p \in Plugins |-> IF said = "always" /\ p \in of THEN "yes" ELSE word[p]]
      /\ UNCHANGED <<registry, serving, account, pending, answer, shown, asked, bounds>>
  BY DEF Respond
<1> HIDE DEF agrees
<1>2. \A c \in Calls :
          /\ call'[c].pc = call[c].pc /\ call'[c].p = call[c].p
          /\ call'[c].req = call[c].req /\ call'[c].said = call[c].said
          /\ call'[c].refused = (call[c].refused /\ c \notin agrees)
  BY <1>0, <1>1, RelentsIs
<1>3. call' \in [Calls -> CallRecords]
  BY <1>0, <1>1, RelentsIs
<1>r. \A c \in Calls :
          /\ call'[c].pc = call[c].pc /\ call'[c].p = call[c].p
          /\ call'[c].req = call[c].req /\ call'[c].said = call[c].said
  BY <1>2
<1>p. UNCHANGED <<pending, answer, shown, asked>>
  BY <1>1
<1>4. Unique' /\ Waited'
  BY <1>0, <1>r, <1>p DEF Unique, Waited
<1>5. Registry'
  <2>1. \A p \in Plugins : word[p] \in Standing => word'[p] \in Standing
    BY <1>1 DEF Standing
  <2> QED
    BY <1>1, <2>1 DEF IInv, Registry
<1>6. Numbers'
  BY <1>0, <1>1 DEF Numbers, Fresh, Ids, TypeOK
<1>7. TypeOK'
  <2>1. /\ reply' \in [Ids -> Replies] /\ word' \in [Plugins -> Words]
    BY <1>0, <1>1 DEF Replies, Words, Standing
  <2>2. \A d \in Calls : call'[d].pc = "record" => call'[d].said = "always"
    BY <1>0, <1>2
  <2> QED
    BY <1>0, <1>1, <1>3, <2>1, <2>2, Typed DEF TypeOK
<1>8. ASSUME NEW c \in Calls PROVE Sound(c)'
  <2>0. Sound(c) /\ call[c].p \in Plugins
    BY <1>0 DEF IInv, CallRecords
  <2>1. call[c].req = r /\ said = "allow" => c \in agrees
    BY DEF agrees
  <2>2. said = "always" /\ call[c].p \in of => c \in agrees
    BY DEF agrees
  <2>3. call[c].req = r => call[c].p \in of
    OBVIOUS
  <2>4. \A a : Heard(c, a) => Heard(c, a)'
    BY <1>1, <1>2, <2>0 DEF Heard
  <2>5. call[c].req = r => Heard(c, said)'
    BY <1>1, <1>2, <2>0, <2>1, <2>2, <2>3 DEF Heard
  <2>6. call'[c].refused => word'[call'[c].p] = "no"
    BY <1>1, <1>2, <2>0, <2>2 DEF Sound
  <2>7. call'[c].pc = "wait" =>
            Heard(c, reply[call[c].req].word)' /\ Heard(c, answer[call[c].req])'
    <3>1. CASE call[c].req = r
      <4>1. reply'[call'[c].req].word = said /\ answer' = answer
        BY <1>0, <1>1, <1>r, <3>1
      <4> QED
        BY <1>r, <2>0, <2>4, <2>5, <3>1, <4>1 DEF Sound
    <3>2. CASE call[c].req # r
      <4>1. reply'[call'[c].req] = reply[call[c].req] /\ answer' = answer
        BY <1>0, <1>1, <1>r, <3>2
      <4> QED
        BY <1>r, <2>0, <2>4, <4>1 DEF Sound
    <3> QED
      BY <3>1, <3>2
  <2>8. call'[c].pc \in {"consent", "prompt"} => Fresh(call[c].req)'
    <3>1. CASE call[c].req = r
      BY <1>1, <1>r, <2>0, <3>1 DEF Sound, Fresh
    <3>2. CASE call[c].req # r
      <4>1. reply'[call[c].req] = reply[call[c].req]
        BY <1>0, <1>1, <3>2
      <4> QED
        BY <1>p, <1>r, <2>0, <4>1 DEF Sound, Fresh
    <3> QED
      BY <3>1, <3>2
  <2>9. Heard(c, call[c].said)'
    BY <1>r, <2>0, <2>4 DEF Sound
  <2> QED
    BY <1>1, <1>2, <2>0, <2>6, <2>7, <2>8, <2>9 DEF Sound
<1> QED
  BY <1>4, <1>5, <1>6, <1>7, <1>8 DEF IInv

LEMMA AnsweringKeeps ==
  ASSUME IInv, NEW r \in Ids, Answering(r)
  PROVE  IInv'
<1> USE DEF registry, prompts, bounds
<1>0. /\ TypeOK /\ Unique /\ Waited /\ Numbers
      /\ reply \in [Ids -> Replies] /\ answer \in [Ids -> Answers \cup {"none"}]
      /\ 0 \notin Ids /\ asked \in 0..MaxAsks /\ MaxAsks \in Nat
  BY CallTyped, BrokerConstants DEF IInv, TypeOK, Ids
<1>1. /\ UNCHANGED <<registry, serving, account, call, asked, word, bounds>>
      /\ pending' \subseteq pending /\ shown' \in {shown, 0}
  BY DEF Answering, TakeSender, SendAnswer, PromptCloses
<1>2. \A s \in Ids : \/ reply'[s].word = reply[s].word
                     \/ reply'[s].word = "none"
  BY <1>0 DEF Answering, TakeSender, SendAnswer, PromptCloses, Replies
<1>3. /\ answer' \in [Ids -> Answers \cup {"none"}]
      /\ \A s \in Ids : \/ answer'[s] = answer[s]
                       \/ /\ answer'[s] = reply[s].word
                          /\ \E c \in Calls : call[c].req = s /\ call[c].pc = "wait"
  <2>1. CASE UNCHANGED answer
    BY <1>0, <2>1
  <2>2. CASE /\ \E c \in Calls : call[c].req = r /\ call[c].pc = "wait"
             /\ answer' = [answer EXCEPT ![r] = reply[r].word]
    BY <1>0, <2>2 DEF Replies
  <2> QED
    BY <2>1, <2>2 DEF Answering, TakeSender, SendAnswer, PromptCloses
<1>4. TypeOK'
  <2>1. reply' \in [Ids -> Replies]
    BY <1>0 DEF Answering, TakeSender, SendAnswer, PromptCloses, Replies
  <2>2. shown' \in 0..MaxAsks /\ pending' \subseteq Ids
    BY <1>0, <1>1 DEF TypeOK
  <2>3. /\ call' \in [Calls -> CallRecords]
        /\ \A c \in Calls : call'[c].pc = "record" => call'[c].said = "always"
    BY <1>0, <1>1, CallTyped
  <2> QED
    BY <1>0, <1>1, <1>3, <2>1, <2>2, <2>3, Typed DEF TypeOK
<1>5. Unique' /\ Waited' /\ Registry'
  BY <1>1 DEF IInv, Unique, Waited, Registry
<1>6. Numbers'
  <2>1. shown' <= asked'
    BY <1>0, <1>1 DEF Numbers, TypeOK
  <2>2. ASSUME NEW s \in Ids, s > asked PROVE Fresh(s)'
    <3>1. reply[s].word = "none" /\ answer[s] = "none" /\ shown # s
      BY <1>0, <2>2 DEF Numbers, Fresh
    <3> QED
      BY <1>0, <1>1, <1>2, <1>3, <3>1 DEF Fresh
  <2> QED
    BY <1>1, <2>1, <2>2 DEF Numbers
<1>7. ASSUME NEW c \in Calls PROVE Sound(c)'
  <2>0. Sound(c)
    BY DEF IInv
  <2>1. \A a : Heard(c, a) => Heard(c, a)'
    BY <1>1 DEF Heard
  <2>2. Heard(c, "none")
    BY DEF Heard
  <2>3. call[c].pc # "idle" => call[c].req \in Ids
    BY ReqIsId
  <2>4. call[c].pc = "wait" =>
            Heard(c, reply'[call[c].req].word) /\ Heard(c, answer'[call[c].req])
    BY <1>2, <1>3, <2>0, <2>2, <2>3 DEF Sound
  <2>5. call[c].pc \in {"consent", "prompt"} =>
            reply'[call[c].req].word = "none" /\ answer'[call[c].req] = "none"
    <3>1. ASSUME call[c].pc \in {"consent", "prompt"}, NEW d \in Calls,
                 call[d].req = call[c].req, call[d].pc = "wait"
          PROVE  FALSE
      BY <1>0, <2>0, <3>1 DEF Unique, Sound
    <3> QED
      BY <1>2, <1>3, <2>0, <2>3, <3>1 DEF Sound, Fresh
  <2>6. call[c].pc \in {"consent", "prompt"} => shown' # call[c].req
    BY <1>1, <2>0 DEF Sound, Fresh
  <2> QED
    BY <1>1, <2>0, <2>1, <2>4, <2>5, <2>6 DEF Sound, Fresh, Heard
<1> QED
  BY <1>4, <1>5, <1>6, <1>7 DEF IInv

-----------------------------------------------------------------------------
(* The process *)

LEMMA RestartKeeps ==
  ASSUME IInv, Restart
  PROVE  IInv'
<1>0. TypeOK /\ Registry
  BY DEF IInv
<1>1. /\ call' = [c \in Calls |-> Idle]
      /\ pending' = {} /\ shown' = 0
      /\ answer' = [r \in Ids |-> "none"] /\ reply' = [r \in Ids |-> NoReply]
      /\ UNCHANGED <<account, asked, word, words, fails>>
      /\ serving' \subseteq Plugins
  BY DEF Restart
<1>2. PICK loads \in BOOLEAN :
          /\ loads => disk.loads
          /\ disk' = [disk EXCEPT !.loads = loads]
          /\ consent' = IF loads THEN disk.consent ELSE [p \in Plugins |-> "gone"]
  <2>1. PICK torn \in BOOLEAN :
          LET loads == disk.loads /\ ~torn IN
            /\ disk' = [disk EXCEPT !.loads = loads]
            /\ consent' = IF loads THEN disk.consent ELSE [p \in Plugins |-> "gone"]
    BY DEF Restart
  <2> QED
    BY <2>1
<1>3. /\ consent' \in [Plugins -> Consents]
      /\ disk' \in [loads : BOOLEAN, consent : [Plugins -> Consents]]
  <2>1. [p \in Plugins |-> "gone"] \in [Plugins -> Consents]
    BY DEF Consents
  <2> QED
    BY <1>0, <1>2, <2>1 DEF TypeOK
<1>4. Registry'
  BY <1>0, <1>1, <1>2 DEF TypeOK, Registry
<1>5. TypeOK'
  <2>1. ends' \in 0..MaxEnds
    <3>1. ends' = ends + 1 /\ ends < MaxEnds
      BY DEF Restart
    <3> QED
      BY <1>0, <3>1, BrokerConstants DEF TypeOK
  <2>2. call' \in [Calls -> CallRecords] /\ reply' \in [Ids -> Replies]
    BY <1>1, IdleTyped DEF NoReply, Replies
  <2>3. \A c \in Calls : call'[c].pc # "record"
    BY <1>1 DEF Idle
  <2> QED
    BY <1>0, <1>1, <1>3, <2>1, <2>2, <2>3, Typed, BrokerConstants DEF TypeOK
<1>6. asked' \in Nat
  BY <1>0, <1>1, BrokerConstants DEF TypeOK
<1>7. Unique' /\ Waited'
  BY <1>1 DEF Unique, Waited, Idle
<1>8. Numbers'
  BY <1>1, <1>6, BrokerConstants DEF Numbers, Fresh, NoReply, Ids
<1>9. \A c \in Calls : Sound(c)'
  BY <1>1, <1>6 DEF Sound, Heard, Idle
<1> QED
  BY <1>4, <1>5, <1>7, <1>8, <1>9 DEF IInv

LEMMA InitInv == Init => IInv
<1> SUFFICES ASSUME Init PROVE IInv
  OBVIOUS
<1>1. /\ call \in [Calls -> CallRecords] /\ reply \in [Ids -> Replies]
      /\ \A c \in Calls : call[c].pc # "record"
  BY IdleTyped DEF Init, Idle, NoReply, Replies
<1>2. /\ consent \in [Plugins -> Consents] /\ disk = [loads |-> TRUE, consent |-> consent]
  BY DEF Init, Consents
<1>3. /\ word \in [Plugins -> Words]
      /\ \A p \in Plugins : consent[p] = "always" => word[p] \in Standing
  BY DEF Init
<1>4. TypeOK
  BY <1>1, <1>2, <1>3, BrokerConstants DEF Init, TypeOK, CallRecords, Replies, Ids
<1>5. Registry
  BY <1>2, <1>3 DEF Registry
<1>6. Unique /\ Waited /\ Numbers
  <2>1. Unique /\ Waited
    BY DEF Init, Unique, Waited, Idle
  <2>2. \A r \in Ids : r # 0
    BY BrokerConstants DEF Ids
  <2>3. Numbers
    BY <2>2 DEF Init, Numbers, Fresh, NoReply
  <2> QED
    BY <2>1, <2>3
<1>7. \A c \in Calls : Sound(c)
  BY DEF Init, Sound, Heard, Idle
<1> QED
  BY <1>4, <1>5, <1>6, <1>7 DEF IInv

LEMMA NextInv == IInv /\ [PatientNext]_vars => IInv'
<1> SUFFICES ASSUME IInv, [PatientNext]_vars PROVE IInv'
  OBVIOUS
<1> USE DEF registry, prompts, bounds
<1>1. ASSUME UNCHANGED <<consent, disk, serving, call, prompts, word, ends>>,
             account' \in Accounts \cup {0}, words' \in 0..MaxWords, fails' \in 0..MaxFails
      PROVE  IInv'
  <2>1. TypeOK'
    BY <1>1, CallTyped, Typed DEF IInv, TypeOK
  <2> QED
    BY <1>1, <2>1, CallsRest DEF IInv, Registry
<1>2. CASE SavesAsIs
  <2>1. PICK saved \in BOOLEAN : Saves(consent, saved)
    BY <1>2 DEF SavesAsIs
  <2>2. UNCHANGED <<serving, account, call, prompts, word, words, ends>>
    BY <1>2 DEF SavesAsIs
  <2>3. TypeOK /\ Registry /\ consent \in [Plugins -> Consents]
    BY DEF IInv, TypeOK
  <2>4. /\ Registry' /\ consent' \in [Plugins -> Consents]
        /\ disk' \in [loads : BOOLEAN, consent : [Plugins -> Consents]]
        /\ fails' \in 0..MaxFails
    BY <2>1, <2>2, <2>3, SavesKeep DEF Registry
  <2>5. TypeOK'
    BY <2>2, <2>3, <2>4, CallTyped, Typed DEF TypeOK
  <2> QED
    BY <2>2, <2>4, <2>5, CallsRest DEF IInv
<1>3. ASSUME NEW a \in Accounts \cup {0}, SignsIn(a) PROVE IInv'
  <2>1. words' \in 0..MaxWords
    <3>1. words' = words + 1 /\ words < MaxWords
      BY <1>3 DEF SignsIn
    <3> QED
      BY <3>1, BrokerConstants DEF IInv, TypeOK
  <2>2. fails' \in 0..MaxFails
    BY <1>3 DEF SignsIn, IInv, TypeOK
  <2> QED
    BY <1>1, <1>3, <2>1, <2>2 DEF SignsIn
<1>4. CASE UNCHANGED vars
  BY <1>1, <1>4 DEF vars, IInv, TypeOK
<1>5. CASE Others
  BY <1>2, <1>3, <1>5, RestartKeeps, ServeKeeps, AskKeeps, AnsweringKeeps, RespondKeeps
     DEF Others, Ask, IInv, TypeOK
<1> QED
  BY <1>4, <1>5, ViewerKeeps DEF PatientNext

LEMMA InvHolds == PatientSpec => []IInv
<1> QED
  BY InitInv, NextInv, PTL DEF PatientSpec

-----------------------------------------------------------------------------
(* Whoever changes his mind whenever he likes: types, and whose a prompt is. *)

\* A call at work has a number that was given out.
Numbered(c) == call[c].req \in 0..asked /\ (call[c].pc # "idle" <=> call[c].req # 0)

OInv == TypeOK /\ Unique /\ Waited /\ \A c \in Calls : Numbered(c)

LEMMA OInvTyped ==
  ASSUME OInv
  PROVE  /\ TypeOK /\ Unique /\ Waited
         /\ call \in [Calls -> CallRecords] /\ reply \in [Ids -> Replies]
         /\ \A c \in Calls : /\ call[c].pc = "record" => call[c].said = "always"
                             /\ call[c].pc # "idle" => call[c].req \in Ids /\ call[c].req # 0
         /\ asked \in Nat /\ asked \in 0..MaxAsks /\ MaxAsks \in Nat
         /\ words \in 0..MaxWords /\ MaxWords \in Nat /\ word \in [Plugins -> Words]
<1>1. /\ TypeOK /\ Unique /\ Waited
      /\ call \in [Calls -> CallRecords] /\ reply \in [Ids -> Replies]
      /\ \A c \in Calls : call[c].pc = "record" => call[c].said = "always"
  BY CallTyped DEF OInv
<1>2. /\ asked \in Nat /\ asked \in 0..MaxAsks /\ MaxAsks \in Nat
      /\ words \in 0..MaxWords /\ MaxWords \in Nat /\ word \in [Plugins -> Words]
  BY <1>1, BrokerConstants DEF TypeOK
<1>3. \A c \in Calls : call[c].pc # "idle" => call[c].req \in Ids /\ call[c].req # 0
  BY <1>2 DEF OInv, Numbered, Ids
<1> QED
  BY <1>1, <1>2, <1>3

\* What a save does to the registry.
LEMMA SavesTyped ==
  ASSUME TypeOK, NEW new \in [Plugins -> Consents], NEW saved \in BOOLEAN, Saves(new, saved)
  PROVE  /\ consent' \in [Plugins -> Consents]
         /\ disk' \in [loads : BOOLEAN, consent : [Plugins -> Consents]]
         /\ fails' \in 0..MaxFails
<1>0. disk \in [loads : BOOLEAN, consent : [Plugins -> Consents]] /\ fails \in 0..MaxFails
  BY DEF TypeOK
<1>1. CASE saved /\ disk' = [loads |-> TRUE, consent |-> new] /\ UNCHANGED fails
  BY <1>0, <1>1 DEF Saves
<1>2. CASE /\ ~saved /\ fails < MaxFails /\ fails' = fails + 1
           /\ disk' \in {disk, [disk EXCEPT !.loads = FALSE]}
  <2>1. fails' \in 0..MaxFails
    BY <1>0, <1>2, BrokerConstants
  <2>2. disk' \in [loads : BOOLEAN, consent : [Plugins -> Consents]]
    BY <1>0, <1>2
  <2> QED
    BY <2>1, <2>2 DEF Saves
<1> QED
  BY <1>1, <1>2 DEF Saves

\* The numbers of the calls, and where they are, stay: so do the prompts' calls.
LEMMA OwnersStay ==
  ASSUME OInv, call' \in [Calls -> CallRecords], asked' = asked, pending' \subseteq pending,
         \A c \in Calls : /\ call'[c].pc = call[c].pc /\ call'[c].req = call[c].req
                          /\ call'[c].said = call[c].said
  PROVE  /\ Unique' /\ Waited' /\ \A c \in Calls : Numbered(c)'
         /\ \A c \in Calls : call'[c].pc = "record" => call'[c].said = "always"
<1>1. Unique'
  BY DEF OInv, Unique
<1>2. Waited'
  BY DEF OInv, Waited
<1>3. \A c \in Calls : Numbered(c)'
  BY DEF OInv, Numbered
<1> QED
  BY <1>1, <1>2, <1>3, OInvTyped

\* One call moves on, or is over.
LEMMA OwnerMoves ==
  ASSUME OInv, NEW c \in Calls, NEW r \in CallRecords, call' = [call EXCEPT ![c] = r],
         call[c].pc # "idle", asked' = asked,
         r.pc = "record" => r.said = "always",
         r.req = IF r.pc = "idle" THEN 0 ELSE call[c].req,
         pending' \subseteq pending \cup {call[c].req},
         call[c].req \in pending' => r.pc \in {"wait", "clear"}
  PROVE  /\ call' \in [Calls -> CallRecords]
         /\ \A d \in Calls : call'[d].pc = "record" => call'[d].said = "always"
         /\ Unique' /\ Waited' /\ \A d \in Calls : Numbered(d)'
<1>1. /\ call' \in [Calls -> CallRecords] /\ call'[c] = r
      /\ \A d \in Calls \ {c} : call'[d] = call[d]
  BY OInvTyped
<1>2. call[c].req # 0 /\ r.req \in {0, call[c].req}
  BY OInvTyped
<1>3. Unique'
  BY <1>1, <1>2 DEF OInv, Unique
<1>4. Waited'
  <2> SUFFICES ASSUME NEW q \in pending'
               PROVE  \E d \in Calls : call'[d].req = q /\ call'[d].pc \in {"wait", "clear"}
    BY DEF Waited
  <2>1. CASE q = call[c].req
    BY <1>1, <2>1
  <2>2. CASE q # call[c].req
    <3>1. PICK d \in Calls : call[d].req = q /\ call[d].pc \in {"wait", "clear"}
      BY <2>2 DEF OInv, Waited
    <3> QED
      BY <1>1, <2>2, <3>1
  <2> QED
    BY <2>1, <2>2
<1>5. \A d \in Calls : Numbered(d)'
  BY <1>1, <1>2, OInvTyped DEF OInv, Numbered
<1>6. \A d \in Calls : call'[d].pc = "record" => call'[d].said = "always"
  BY <1>1, OInvTyped
<1> QED
  BY <1>1, <1>3, <1>4, <1>5, <1>6

LEMMA ServeOwned ==
  ASSUME OInv, NEW c \in Calls, Serve(c)
  PROVE  OInv'
<1> USE DEF registry, prompts, bounds
<1>0. /\ call[c] \in CallRecords /\ call \in [Calls -> CallRecords] /\ Idle \in CallRecords
      /\ Idle.pc = "idle" /\ Idle.req = 0
  BY OInvTyped, IdleTyped DEF Idle
<1>1. call[c].pc # "idle"
  BY DEF Serve, ReadConsent, Prompt, Answered, TimesOut, Clear, RecordAlways, HandOver
<1>2. call[c].req \in Ids /\ call[c].req # 0 /\ call[c].req \in 0..MaxAsks
  BY <1>1, OInvTyped DEF Ids
<1>3. call[c].req \in pending => call[c].pc \in {"wait", "clear"}
  BY <1>2 DEF OInv, Waited, Unique
\* Where the call goes and what becomes of its prompt.
<1> DEFINE Goes ==
      \E r \in CallRecords :
          /\ call' = [call EXCEPT ![c] = r]
          /\ r.req = IF r.pc = "idle" THEN 0 ELSE call[c].req
          /\ r.pc = "record" => r.said = "always"
          /\ call[c].req \in pending' => r.pc \in {"wait", "clear"}
<1>4. Goes
  <2>1. ASSUME NEW pc \in {"prompt", "wait", "clear", "record", "hand"}, Goto(c, pc),
               pc = "record" => call[c].said = "always",
               call[c].req \in pending' => pc \in {"wait", "clear"}
        PROVE  Goes
    <3> DEFINE r == [call[c] EXCEPT !.pc = pc]
    <3>1. call' = [call EXCEPT ![c] = r]
      BY <1>0, <2>1 DEF Goto
    <3>2. r \in CallRecords /\ r.pc = pc /\ r.req = call[c].req /\ r.said = call[c].said
      BY <1>0 DEF CallRecords
    <3> QED
      BY <2>1, <3>1, <3>2
  <2>2. ASSUME Done(c), call[c].req \notin pending' PROVE Goes
    BY <1>0, <2>2 DEF Done
  <2>3. CASE ReadConsent(c)
    <3>1. call[c].req \notin pending' /\ (Done(c) \/ Goto(c, "hand") \/ Goto(c, "prompt"))
      BY <1>3, <2>3 DEF ReadConsent
    <3> QED
      BY <2>1, <2>2, <3>1
  <2>4. CASE Prompt(c)
    BY <2>1, <2>4 DEF Prompt
  <2>5. CASE Answered(c)
    <3> DEFINE r == [call[c] EXCEPT !.pc = "clear", !.said = answer[call[c].req]]
    <3>1. answer[call[c].req] \in Answers \cup {"none"}
      BY <1>2, OInvTyped DEF TypeOK
    <3>2. call' = [call EXCEPT ![c] = r]
      BY <1>0, <2>5 DEF Answered
    <3>3. r \in CallRecords /\ r.pc = "clear" /\ r.req = call[c].req
      BY <1>0, <3>1 DEF CallRecords
    <3> QED
      BY <3>2, <3>3
  <2>6. CASE TimesOut(c)
    BY <2>1, <2>6 DEF TimesOut
  <2>7. CASE Clear(c)
    <3>1. call[c].req \notin pending'
      BY <2>7 DEF Clear
    <3>2. \/ Goto(c, "hand") \/ Done(c)
          \/ Goto(c, "record") /\ call[c].said = "always"
      BY <2>7 DEF Clear
    <3> QED
      BY <2>1, <2>2, <3>1, <3>2
  <2>8. CASE RecordAlways(c)
    <3>1. call[c].req \notin pending' /\ Goto(c, "hand")
      BY <1>3, <2>8 DEF RecordAlways
    <3> QED
      BY <2>1, <3>1
  <2>9. CASE HandOver(c)
    <3>1. call[c].req \notin pending' /\ Done(c)
      BY <1>3, <2>9 DEF HandOver
    <3> QED
      BY <2>2, <3>1
  <2> QED
    BY <2>3, <2>4, <2>5, <2>6, <2>7, <2>8, <2>9 DEF Serve
<1>5. /\ UNCHANGED <<serving, account, reply, asked, word, words, ends>>
      /\ pending' \subseteq pending \cup {call[c].req}
      /\ shown' \in {shown, call[c].req}
      /\ answer' = answer \/ answer' = [answer EXCEPT ![call[c].req] = "none"]
  BY DEF Serve, ReadConsent, Prompt, Answered, TimesOut, Clear, RecordAlways, HandOver
<1>6. /\ consent' \in [Plugins -> Consents]
      /\ disk' \in [loads : BOOLEAN, consent : [Plugins -> Consents]]
      /\ fails' \in 0..MaxFails
  <2>1. CASE UNCHANGED <<registry, fails>>
    BY <2>1, OInvTyped DEF TypeOK
  <2>2. CASE \E saved \in BOOLEAN : SetConsent(call[c].p, "always", saved)
    <3> DEFINE new == [consent EXCEPT ![call[c].p] = "always"]
    <3>1. PICK saved \in BOOLEAN : Saves(new, saved)
      BY <2>2 DEF SetConsent
    <3>2. new \in [Plugins -> Consents]
      BY OInvTyped DEF TypeOK, Consents
    <3> QED
      BY <3>1, <3>2, OInvTyped, SavesTyped
  <2> QED
    BY <2>1, <2>2
       DEF Serve, ReadConsent, Prompt, Answered, TimesOut, Clear, RecordAlways, HandOver
<1>7. /\ call' \in [Calls -> CallRecords]
      /\ \A d \in Calls : call'[d].pc = "record" => call'[d].said = "always"
      /\ Unique' /\ Waited' /\ \A d \in Calls : Numbered(d)'
  BY <1>1, <1>4, <1>5, OwnerMoves
<1>8. /\ pending' \subseteq Ids /\ shown' \in 0..MaxAsks
      /\ answer' \in [Ids -> Answers \cup {"none"}]
  BY <1>2, <1>5, OInvTyped DEF TypeOK
<1>9. TypeOK'
  <2>1. /\ serving' \subseteq Plugins /\ account' \in Accounts \cup {0}
        /\ asked' \in 0..MaxAsks /\ reply' \in [Ids -> Replies]
        /\ word' \in [Plugins -> Words]
        /\ words' \in 0..MaxWords /\ ends' \in 0..MaxEnds
    BY <1>5, OInvTyped DEF TypeOK
  <2> QED
    BY <1>6, <1>7, <1>8, <2>1, Typed
<1> QED
  BY <1>7, <1>9 DEF OInv

LEMMA AskOwned ==
  ASSUME OInv, NEW c \in Calls, NEW p \in Plugins, Ask(c, p)
  PROVE  OInv'
<1> USE DEF registry, prompts, bounds
<1> DEFINE r == [Idle EXCEPT !.pc = "consent", !.p = p, !.req = asked', !.token = account,
                             !.refused = word[p] = "no"]
<1>1. /\ asked' = asked + 1 /\ asked' \in 0..MaxAsks /\ call[c].pc = "idle"
      /\ call' = [call EXCEPT ![c] = r]
      /\ UNCHANGED <<registry, serving, account, pending, answer, shown, reply, word, bounds>>
  BY OInvTyped DEF Ask
<1>2. r \in CallRecords /\ r.pc = "consent" /\ r.req = asked'
  <2>1. account \in Accounts \cup {0} /\ (word[p] = "no") \in BOOLEAN
    BY OInvTyped DEF TypeOK
  <2> QED
    BY <1>1, <2>1, IdleTyped DEF CallRecords
<1> HIDE DEF r
<1>3. /\ call' \in [Calls -> CallRecords] /\ call'[c] = r
      /\ \A d \in Calls \ {c} : call'[d] = call[d]
  BY <1>1, <1>2, OInvTyped
<1>4. \A d \in Calls : call[d].req \in Nat /\ call[d].req <= asked
  BY OInvTyped DEF OInv, Numbered
<1>5. Unique'
  BY <1>1, <1>2, <1>3, <1>4, OInvTyped DEF Unique
<1>6. Waited'
  BY <1>1, <1>3, OInvTyped DEF Waited
<1>7. \A d \in Calls : Numbered(d)'
  BY <1>1, <1>2, <1>3, <1>4, OInvTyped DEF OInv, Numbered
<1>8. \A d \in Calls : call'[d].pc = "record" => call'[d].said = "always"
  BY <1>2, <1>3, OInvTyped
<1>9. TypeOK'
  BY <1>1, <1>3, <1>8, OInvTyped, Typed DEF TypeOK
<1> QED
  BY <1>5, <1>6, <1>7, <1>9 DEF OInv

LEMMA PageOwned ==
  ASSUME OInv, NEW r \in Ids, Answering(r) \/ \E said \in Answers : Respond(r, said)
  PROVE  OInv'
<1> USE DEF registry, prompts, bounds
<1>1. CASE Answering(r)
  <2>1. /\ UNCHANGED <<registry, serving, account, call, asked, word, bounds>>
        /\ pending' \subseteq pending /\ shown' \in {shown, 0}
    BY <1>1 DEF Answering, TakeSender, SendAnswer, PromptCloses
  <2>2. reply' \in [Ids -> Replies]
    BY <1>1, OInvTyped DEF Answering, TakeSender, SendAnswer, PromptCloses, Replies
  <2>3. answer' \in [Ids -> Answers \cup {"none"}]
    <3>1. reply[r].word \in Answers \cup {"none"} /\ answer \in [Ids -> Answers \cup {"none"}]
      BY OInvTyped DEF Replies, TypeOK
    <3>2. answer' = answer \/ answer' = [answer EXCEPT ![r] = reply[r].word]
      BY <1>1 DEF Answering, TakeSender, SendAnswer, PromptCloses
    <3> QED
      BY <3>1, <3>2
  <2>4. /\ Unique' /\ Waited' /\ \A c \in Calls : Numbered(c)'
    BY <2>1, OInvTyped, OwnersStay
  <2>5. shown' \in 0..MaxAsks /\ pending' \subseteq Ids
    BY <2>1, OInvTyped DEF TypeOK
  <2>6. TypeOK'
    BY <2>1, <2>2, <2>3, <2>5, OInvTyped, Typed DEF TypeOK
  <2> QED
    BY <2>4, <2>6 DEF OInv
<1>2. ASSUME NEW said \in Answers, Respond(r, said) PROVE OInv'
  <2>1. PICK agrees \in SUBSET Calls :
            call' = [c \in Calls |-> [call[c] EXCEPT !.refused = @ /\ c \notin agrees]]
    <3> DEFINE asks == {c \in Calls : call[c].req = r}
               of == {call[c].p : c \in asks}
               agrees == CASE said = "deny" -> {} [] said = "allow" -> asks
                           [] said = "always" -> {c \in Calls : call[c].p \in of}
    <3>1. call' = [c \in Calls |-> [call[c] EXCEPT !.refused = @ /\ c \notin agrees]]
      BY <1>2 DEF Respond
    <3>2. agrees \in SUBSET Calls
      BY DEF Answers
    <3> HIDE DEF agrees
    <3> QED
      BY <3>1, <3>2
  <2>2. /\ reply' = [reply EXCEPT ![r] = [word |-> said, at |-> "sent"]]
        /\ UNCHANGED <<registry, serving, account, pending, answer, shown, asked, bounds>>
    BY <1>2 DEF Respond
  <2>3. word' \in [Plugins -> Words]
    <3>1. word \in [Plugins -> Words]
      BY OInvTyped
    <3>2. PICK of \in SUBSET Plugins :
              word' = [p \in Plugins |-> IF said = "always" /\ p \in of THEN "yes" ELSE word[p]]
      <4> DEFINE of == {call[c].p : c \in {d \in Calls : call[d].req = r}}
      <4>1. of \in SUBSET Plugins
        BY OInvTyped DEF CallRecords
      <4>2. word' = [p \in Plugins |-> IF said = "always" /\ p \in of THEN "yes" ELSE word[p]]
        BY <1>2 DEF Respond
      <4> HIDE DEF of
      <4> QED
        BY <4>1, <4>2
    <3> QED
      BY <3>1, <3>2 DEF Words, Standing
  <2>4. call \in [Calls -> CallRecords]
    BY OInvTyped
  <2>5. /\ call' \in [Calls -> CallRecords]
        /\ \A c \in Calls : /\ call'[c].pc = call[c].pc /\ call'[c].req = call[c].req
                            /\ call'[c].said = call[c].said
    BY <2>1, <2>4, RelentsIs
  <2>6. /\ Unique' /\ Waited' /\ \A c \in Calls : Numbered(c)'
        /\ \A c \in Calls : call'[c].pc = "record" => call'[c].said = "always"
    BY <2>2, <2>5, OwnersStay
  <2>7. reply' \in [Ids -> Replies]
    BY <2>2, OInvTyped DEF Replies
  <2>8. TypeOK'
    BY <2>2, <2>3, <2>5, <2>6, <2>7, OInvTyped, Typed DEF TypeOK
  <2> QED
    BY <2>6, <2>8 DEF OInv
<1> QED
  BY <1>1, <1>2

\* The viewer's word outside a prompt, and saves of the registry as it is.
LEMMA ViewerOwned ==
  ASSUME OInv, SavesAsIs \/ \E p \in Plugins : Viewer(p)
  PROVE  OInv'
<1> USE DEF registry, prompts, bounds
<1>0. /\ TypeOK /\ call \in [Calls -> CallRecords] /\ consent \in [Plugins -> Consents]
      /\ {"ask", "always", "revoked", "gone"} \subseteq Consents
  BY OInvTyped DEF TypeOK, Consents
<1>1. /\ consent' \in [Plugins -> Consents]
      /\ disk' \in [loads : BOOLEAN, consent : [Plugins -> Consents]]
      /\ fails' \in 0..MaxFails
  <2> DEFINE Some == \E new \in [Plugins -> Consents], saved \in BOOLEAN : Saves(new, saved)
  <2>1. Some
    <3>1. CASE SavesAsIs
      BY <1>0, <3>1 DEF SavesAsIs
    <3>2. ASSUME NEW p \in Plugins, Viewer(p) PROVE Some
      <4>1. \E state \in Consents, saved \in BOOLEAN :
                Saves([consent EXCEPT ![p] = state], saved)
        BY <1>0, <3>2 DEF Viewer, Revoke, Reset, Install, Uninstall, SetConsent
      <4> QED
        BY <1>0, <4>1
    <3> QED
      BY <3>1, <3>2
  <2> QED
    BY <1>0, <2>1, SavesTyped
<1>2. UNCHANGED <<account, prompts, ends>> /\ serving' \subseteq Plugins
  BY <1>0 DEF SavesAsIs, Viewer, Revoke, Reset, Install, Uninstall, TypeOK
<1> DEFINE Worded ==
      words' \in 0..MaxWords /\ word' \in [Plugins -> Words]
<1>3. Worded
  <2>1. ASSUME NEW p \in Plugins, NEW said, said = "" \/ said \in {"yes", "granted", "no"}, Says(p, said)
        PROVE  Worded
    <3>1. words' = words + 1 /\ words < MaxWords
      BY <2>1 DEF Says
    <3>2. words' \in 0..MaxWords
      BY <3>1, OInvTyped
    <3>3. CASE said = ""
      BY <2>1, <3>2, <3>3, OInvTyped DEF Says
    <3>4. CASE said # "" /\ said \in {"yes", "granted", "no"}
      <4>1. word' = [word EXCEPT ![p] = said]
        BY <2>1, <3>4 DEF Says
      <4> QED
        BY <3>2, <3>4, <4>1, OInvTyped DEF Words, Standing
    <3> QED
      BY <2>1, <3>3, <3>4
  <2>2. CASE SavesAsIs
    BY <2>2, OInvTyped DEF SavesAsIs
  <2>3. ASSUME NEW p \in Plugins, Viewer(p) PROVE Worded
    <3>1. Says(p, "no") \/ Says(p, "yes") \/ Says(p, "granted") \/ Says(p, "")
      BY <2>3 DEF Viewer, Revoke, Reset, Install, Uninstall
    <3> QED
      BY <2>1, <3>1
  <2> QED
    BY <2>2, <2>3
<1> DEFINE Rests ==
      /\ call' \in [Calls -> CallRecords]
      /\ \A c \in Calls : /\ call'[c].pc = call[c].pc /\ call'[c].req = call[c].req
                          /\ call'[c].said = call[c].said
<1>4. Rests
  <2>1. CASE UNCHANGED call
    BY <1>0, <2>1
  <2>2. ASSUME NEW p \in Plugins, call' = Agreed(p) PROVE Rests
    BY <1>0, <2>2, AgreedIs
  <2> QED
    BY <2>1, <2>2 DEF SavesAsIs, Viewer, Revoke, Reset, Install, Uninstall
<1>5. /\ Unique' /\ Waited' /\ \A c \in Calls : Numbered(c)'
      /\ \A c \in Calls : call'[c].pc = "record" => call'[c].said = "always"
  BY <1>2, <1>4, OwnersStay
<1>6. TypeOK'
  <2>1. /\ account' \in Accounts \cup {0} /\ pending' \subseteq Ids /\ shown' \in 0..MaxAsks
        /\ asked' \in 0..MaxAsks /\ answer' \in [Ids -> Answers \cup {"none"}]
        /\ reply' \in [Ids -> Replies] /\ ends' \in 0..MaxEnds
    BY <1>2, OInvTyped DEF TypeOK
  <2> QED
    BY <1>1, <1>2, <1>3, <1>4, <1>5, <2>1, Typed
<1> QED
  BY <1>5, <1>6 DEF OInv

LEMMA RestartOwned ==
  ASSUME OInv, Restart
  PROVE  OInv'
<1>0. /\ call' = [c \in Calls |-> Idle] /\ pending' = {} /\ shown' = 0
      /\ answer' = [r \in Ids |-> "none"] /\ reply' = [r \in Ids |-> NoReply]
      /\ UNCHANGED <<account, asked, word, words, fails>> /\ serving' \subseteq Plugins
      /\ Idle \in CallRecords /\ Idle.pc = "idle" /\ Idle.req = 0
  BY IdleTyped DEF Restart, Idle
<1>1. /\ consent' \in [Plugins -> Consents]
      /\ disk' \in [loads : BOOLEAN, consent : [Plugins -> Consents]]
  <2>1. /\ [p \in Plugins |-> "gone"] \in [Plugins -> Consents]
        /\ disk \in [loads : BOOLEAN, consent : [Plugins -> Consents]]
    BY OInvTyped DEF Consents, TypeOK
  <2> QED
    BY <2>1 DEF Restart
<1>2. ends' \in 0..MaxEnds
  <2>1. ends' = ends + 1 /\ ends < MaxEnds
    BY DEF Restart
  <2> QED
    BY <2>1, OInvTyped, BrokerConstants DEF TypeOK
<1>3. Unique' /\ Waited' /\ \A c \in Calls : Numbered(c)'
  BY <1>0, OInvTyped DEF Unique, Waited, Numbered
<1>4. call' \in [Calls -> CallRecords] /\ \A c \in Calls : call'[c].pc # "record"
  BY <1>0
<1>5. /\ reply' \in [Ids -> Replies] /\ answer' \in [Ids -> Answers \cup {"none"}]
      /\ pending' \subseteq Ids /\ shown' \in 0..MaxAsks
  BY <1>0, BrokerConstants DEF NoReply, Replies
<1>6. TypeOK'
  BY <1>0, <1>1, <1>2, <1>4, <1>5, OInvTyped, Typed DEF TypeOK
<1> QED
  BY <1>3, <1>6 DEF OInv

LEMMA NextOwned == OInv /\ [Next]_vars => OInv'
<1> SUFFICES ASSUME OInv, [Next]_vars PROVE OInv'
  OBVIOUS
<1>1. ASSUME NEW a \in Accounts \cup {0}, SignsIn(a) PROVE OInv'
  <2>1. /\ account' \in Accounts \cup {0} /\ words' \in 0..MaxWords
        /\ UNCHANGED <<consent, disk, serving, call, pending, answer, shown, reply, asked,
                       word, fails, ends>>
    BY <1>1, OInvTyped DEF SignsIn, registry, prompts
  <2>2. Unique' /\ Waited' /\ \A c \in Calls : Numbered(c)'
    BY <2>1, OInvTyped, OwnersStay
  <2>3. TypeOK'
    BY <2>1, OInvTyped, Typed DEF TypeOK
  <2> QED
    BY <2>2, <2>3 DEF OInv
<1>2. CASE UNCHANGED vars
  <2>1. Unique' /\ Waited' /\ \A c \in Calls : Numbered(c)'
    BY <1>2, OInvTyped, OwnersStay DEF vars
  <2>2. TypeOK'
    BY <1>2, OInvTyped DEF TypeOK, vars
  <2> QED
    BY <2>1, <2>2 DEF OInv
<1>3. CASE Next
  <2>1. ASSUME NEW c \in Calls, NEW p \in Plugins, Ask(c, p) PROVE OInv'
    BY <2>1, AskOwned
  <2>2. ASSUME NEW r \in Ids, Answering(r) \/ \E said \in Answers : Respond(r, said)
        PROVE  OInv'
    BY <2>2, PageOwned
  <2> QED
    BY <1>1, <1>3, <2>1, <2>2, ServeOwned, ViewerOwned, RestartOwned DEF Next, Others
<1> QED
  BY <1>2, <1>3

LEMMA InitOwned == Init => OInv
<1> SUFFICES ASSUME Init PROVE OInv
  OBVIOUS
<1>1. TypeOK /\ Unique /\ Waited
  BY InitInv DEF IInv
<1>2. \A c \in Calls : Numbered(c)
  BY DEF Init, Numbered, Idle
<1> QED
  BY <1>1, <1>2 DEF OInv

LEMMA OInvHolds == Spec => []OInv
<1> QED
  BY InitOwned, NextOwned, PTL DEF Spec

-----------------------------------------------------------------------------
(* The theorems *)

(* The calls, prompts, answers and entries keep their types, and a consent  *)
(* is only ever recorded for an answer that said so (get_credential).       *)
THEOREM TypeCorrect == Spec => []TypeOK
<1>1. OInv => TypeOK
  BY DEF OInv
<1> QED
  BY <1>1, OInvHolds, PTL

(* Whenever the viewer changes his mind, whatever he answers and whatever   *)
(* times out or ends: consent_pending holds no prompt that no call waits    *)
(* for or is about to clear, and no two calls share one (get_credential,    *)
(* respond_consent).                                                        *)
THEOREM PromptsBelong == Spec => []PromptsAreCalls
<1>1. OInv => PromptsAreCalls
  BY DEF OInv, Unique, Waited, PromptsAreCalls
<1> QED
  BY <1>1, OInvHolds, PTL

(* With a viewer who lets an answer be noted before he changes his mind,    *)
(* the entries in memory and on the disk say what stands last, his word or  *)
(* an install's grant, through saves that fail, files that are torn and     *)
(* restarts.                                                                *)
THEOREM LastWordIsKept == PatientSpec => []LastWordHolds
<1>1. IInv => LastWordHolds
  BY DEF IInv, Registry, LastWordHolds, TypeOK, Standing
<1> QED
  BY <1>1, InvHolds, PTL

(* With a viewer who lets an answer be noted before he changes his mind, no *)
(* call that began after a revocation is handed the token unless he has     *)
(* agreed since or an install has granted it.                               *)
THEOREM RevokedIsRefused == PatientSpec => []RevokedGetsNothing
<1>1. IInv => RevokedGetsNothing
  BY DEF IInv, Sound, RevokedGetsNothing
<1> QED
  BY <1>1, InvHolds, PTL
=============================================================================
