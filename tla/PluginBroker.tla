---------------------------- MODULE PluginBroker ----------------------------
(***************************************************************************)
(* The hand-over of the viewer's login to plugins (plugin_host/broker.rs): *)
(* every call of get_credential is a task of its own that no session ends; *)
(* the consent lies in the registry, in memory and on the disk, under one  *)
(* lock; a missing consent opens a prompt, which the page                  *)
(* (PluginRuntimeBridge.tsx) shows one at a time and answers by its id.    *)
(*                                                                         *)
(* One kind of credential, "twitch.android", is all the host knows.  A     *)
(* save is one step: the lock is held across it.                           *)
(***************************************************************************)
EXTENDS Naturals

CONSTANTS
    Plugins,    \* plugins whose manifest was granted the credential
    Calls,      \* tasks that serve get_credential
    Accounts,   \* who can sign in
    MaxAsks,    \* bound: calls of get_credential
    MaxWords,   \* bound: what the viewer says outside a prompt, and sign-ins
    MaxFails,   \* bound: saves of the registry that fail
    MaxEnds     \* bound: times the process ends

ASSUME BrokerConstants ==
    /\ Plugins # {} /\ Calls # {} /\ Accounts \subseteq Nat /\ 1 \in Accounts
    /\ MaxAsks \in Nat /\ MaxWords \in Nat /\ MaxFails \in Nat /\ MaxEnds \in Nat

VARIABLES
    consent,    \* in memory: "gone" (not installed), "ask" (no entry), "always", "revoked"
    disk,       \* registry.json, loadable or not
    serving,    \* plugins that may have a session: installed at some time in this run
    account,    \* who is signed in, 0 nobody
    call,       \* the tasks: where they are, for whom, their prompt, the token they hold
    pending,    \* consent_pending: prompts whose answer can still be taken
    answer,     \* what a prompt's channel holds
    shown,      \* the prompt on the page, 0 none
    reply,      \* the page's answer to a prompt, on its way
    asked,      \* calls so far; a call's number is the request_id of its prompt
    word,       \* history: what stands last about a plugin: the viewer's "yes" or
                \* "no", or "granted" by an install without his being asked
    words, fails, ends

vars == <<consent, disk, serving, account, call, pending, answer, shown, reply,
          asked, word, words, fails, ends>>
registry == <<consent, disk>>
prompts == <<pending, answer, shown, reply, asked>>
bounds == <<words, fails, ends>>

Ids == 1..MaxAsks
Consents == {"gone", "ask", "always", "revoked"}
Answers == {"allow", "always", "deny"}
Standing == {"yes", "granted"}
Words == Standing \cup {"no", "none"}
Idle == [pc |-> "idle", p |-> CHOOSE p \in Plugins : TRUE, req |-> 0, token |-> 0,
         refused |-> FALSE, said |-> "none"]
NoReply == [word |-> "none", at |-> "none"]

(* A consent found at the start is the viewer's, or an install's: records   *)
(* are made with "always", and a legacy "ask" is upgraded to it.           *)
Init ==
    /\ consent \in [Plugins -> {"ask", "always", "revoked"}]
    /\ disk = [loads |-> TRUE, consent |-> consent]
    /\ serving = Plugins /\ account = 1
    /\ call = [c \in Calls |-> Idle]
    /\ pending = {} /\ shown = 0 /\ asked = 0
    /\ answer = [r \in Ids |-> "none"] /\ reply = [r \in Ids |-> NoReply]
    /\ word \in [Plugins -> Words]
    /\ \A p \in Plugins : word[p] \in CASE consent[p] = "revoked" -> {"no"}
                                       [] consent[p] = "always" -> Standing
                                       [] OTHER -> {"none"}
    /\ words = 0 /\ fails = 0 /\ ends = 0

Goto(c, pc) == call' = [call EXCEPT ![c].pc = pc]
Done(c) == call' = [call EXCEPT ![c] = Idle]

-----------------------------------------------------------------------------
(* The registry *)

(* registry::save truncates the file before it writes it.                  *)
Saves(new, saved) ==
    /\ consent' = new
    /\ \/ saved /\ disk' = [loads |-> TRUE, consent |-> new] /\ UNCHANGED fails
       \/ /\ ~saved /\ fails < MaxFails /\ fails' = fails + 1
          /\ disk' \in {disk, [disk EXCEPT !.loads = FALSE]}

SetConsent(p, state, saved) ==
    /\ consent[p] # "gone"
    /\ Saves([consent EXCEPT ![p] = state], saved)

(* The viewer's click; a revocation counts once the page was told of it.   *)
Says(p, said) ==
    /\ words < MaxWords /\ words' = words + 1
    /\ word' = IF said = "" THEN word ELSE [word EXCEPT ![p] = said]
Agreed(p) == [c \in Calls |-> [call[c] EXCEPT !.refused = @ /\ call[c].p # p]]

Revoke(p) == \E saved \in BOOLEAN :
    /\ SetConsent(p, "revoked", saved) /\ Says(p, IF saved THEN "no" ELSE "")
    /\ UNCHANGED <<serving, account, call, prompts, ends>>

Reset(p) == \E saved \in BOOLEAN :
    /\ SetConsent(p, "always", saved) /\ Says(p, "yes")
    /\ call' = Agreed(p)
    /\ UNCHANGED <<serving, account, prompts, ends>>

(* commit_install, install_local: the new record says "always", whatever   *)
(* the old one said ("Enabling the plugin is the grant", install.rs:413).  *)
Install(p) == \E saved \in BOOLEAN :
    /\ Saves([consent EXCEPT ![p] = "always"], saved)
    /\ Says(p, IF word[p] = "yes" THEN "yes" ELSE "granted")
    /\ call' = Agreed(p) /\ serving' = serving \cup {p}
    /\ UNCHANGED <<account, prompts, ends>>

(* set_enabled and whatever else saves the registry as it is.              *)
SavesAsIs == \E saved \in BOOLEAN :
    /\ Saves(consent, saved)
    /\ UNCHANGED <<serving, account, call, prompts, word, words, ends>>

(* A session that does not end in time outlives its record.                *)
Uninstall(p) == \E saved \in BOOLEAN :
    /\ consent[p] # "gone"
    /\ Saves([consent EXCEPT ![p] = "gone"], saved) /\ Says(p, "")
    /\ UNCHANGED <<serving, account, call, prompts, ends>>

SignsIn(a) ==
    /\ a # account /\ account' = a
    /\ words < MaxWords /\ words' = words + 1
    /\ UNCHANGED <<registry, serving, call, prompts, word, fails, ends>>

-----------------------------------------------------------------------------
(* get_credential *)

(* The token first: nobody is asked about one that is not there.           *)
Ask(c, p) ==
    /\ call[c].pc = "idle" /\ p \in serving /\ account # 0
    /\ asked < MaxAsks /\ asked' = asked + 1
    /\ call' = [call EXCEPT ![c] = [Idle EXCEPT !.pc = "consent", !.p = p,
                    !.req = asked', !.token = account, !.refused = word[p] = "no"]]
    /\ UNCHANGED <<registry, serving, account, pending, answer, shown, reply, word, bounds>>

ReadConsent(c) ==
    LET state == consent[call[c].p] IN
    /\ call[c].pc = "consent"
    /\ CASE state = "revoked" -> Done(c)
         [] state = "always"  -> Goto(c, "hand")
         [] OTHER             -> Goto(c, "prompt")
    /\ UNCHANGED <<registry, serving, account, prompts, word, bounds>>

Prompt(c) ==
    /\ call[c].pc = "prompt"
    /\ pending' = pending \cup {call[c].req} /\ shown' = call[c].req
    /\ Goto(c, "wait")
    /\ UNCHANGED <<registry, serving, account, answer, reply, asked, word, bounds>>

Answered(c) ==
    /\ call[c].pc = "wait" /\ answer[call[c].req] # "none"
    /\ call' = [call EXCEPT ![c].pc = "clear", ![c].said = answer[call[c].req]]
    /\ answer' = [answer EXCEPT ![call[c].req] = "none"]
    /\ UNCHANGED <<registry, serving, account, pending, shown, reply, asked, word, bounds>>

(* Variant for the run's sensitivity: the call whose time is up goes       *)
(* without a clean-up.                                                     *)
TimesOutAtOnce(c) ==
    /\ call[c].pc = "wait" /\ answer[call[c].req] = "none"
    /\ Done(c)
    /\ UNCHANGED <<registry, serving, account, prompts, word, bounds>>

TimesOut(c) ==
    /\ call[c].pc = "wait" /\ answer[call[c].req] = "none"
    /\ Goto(c, "clear")
    /\ UNCHANGED <<registry, serving, account, prompts, word, bounds>>

(* Variants: no answer is no denial; an "allow" is kept.                   *)
ClearAllows(c) ==
    /\ call[c].pc = "clear"
    /\ pending' = pending \ {call[c].req}
    /\ CASE call[c].said \in {"allow", "none"} -> Goto(c, "hand")
         [] call[c].said = "always" -> Goto(c, "record")
         [] OTHER                   -> Done(c)
    /\ UNCHANGED <<registry, serving, account, answer, shown, reply, asked, word, bounds>>
ClearKeeps(c) ==
    /\ call[c].pc = "clear"
    /\ pending' = pending \ {call[c].req}
    /\ IF call[c].said \in {"allow", "always"} THEN Goto(c, "record") ELSE Done(c)
    /\ UNCHANGED <<registry, serving, account, answer, shown, reply, asked, word, bounds>>

Clear(c) ==
    /\ call[c].pc = "clear"
    /\ pending' = pending \ {call[c].req}
    /\ CASE call[c].said = "allow"  -> Goto(c, "hand")
         [] call[c].said = "always" -> Goto(c, "record")
         [] OTHER                   -> Done(c)
    /\ UNCHANGED <<registry, serving, account, answer, shown, reply, asked, word, bounds>>

(* "Don't ask again"; a plugin that is gone, or a failed save, is ignored. *)
RecordAlways(c) ==
    /\ call[c].pc = "record"
    /\ IF consent[call[c].p] = "gone" THEN UNCHANGED <<registry, fails>>
       ELSE \E saved \in BOOLEAN : SetConsent(call[c].p, "always", saved)
    /\ Goto(c, "hand")
    /\ UNCHANGED <<serving, account, prompts, word, words, ends>>

HandOver(c) ==
    /\ call[c].pc = "hand"
    /\ Done(c)
    /\ UNCHANGED <<registry, serving, account, prompts, word, bounds>>

-----------------------------------------------------------------------------
(* The page's prompt, and respond_consent *)

(* A click on the prompt that is shown.                                    *)
Respond(r, said) ==
    LET asks == {c \in Calls : call[c].req = r}
        of == {call[c].p : c \in asks}
        agrees == CASE said = "deny" -> {} [] said = "allow" -> asks
                    [] said = "always" -> {c \in Calls : call[c].p \in of}
    IN  /\ r = shown /\ reply[r].at = "none"
        /\ reply' = [reply EXCEPT ![r] = [word |-> said, at |-> "sent"]]
        /\ call' = [c \in Calls |-> [call[c] EXCEPT !.refused = @ /\ c \notin agrees]]
        /\ word' = [p \in Plugins |-> IF said = "always" /\ p \in of THEN "yes" ELSE word[p]]
        /\ UNCHANGED <<registry, serving, account, pending, answer, shown, asked, bounds>>

(* The sender is taken out under the lock and used after it.               *)
TakeSender(r) ==
    /\ reply[r].at = "sent"
    /\ pending' = pending \ {r}
    /\ reply' = [reply EXCEPT ![r].at = IF r \in pending THEN "taken" ELSE "back"]
    /\ UNCHANGED <<registry, serving, account, call, answer, shown, asked, word, bounds>>

(* A call that has stopped waiting hears nothing; the page is told it did. *)
SendAnswer(r) ==
    /\ reply[r].at = "taken"
    /\ answer' = IF \E c \in Calls : call[c].req = r /\ call[c].pc = "wait"
                 THEN [answer EXCEPT ![r] = reply[r].word] ELSE answer
    /\ reply' = [reply EXCEPT ![r].at = "back"]
    /\ UNCHANGED <<registry, serving, account, call, pending, shown, asked, word, bounds>>

(* setRequest(null), whatever the page shows by now.                       *)
PromptCloses(r) ==
    /\ reply[r].at = "back"
    /\ reply' = [reply EXCEPT ![r] = [word |-> "none", at |-> "over"]] /\ shown' = 0
    /\ UNCHANGED <<registry, serving, account, call, pending, answer, asked, word, bounds>>

-----------------------------------------------------------------------------
(* The process ends, also in the middle of a save, and starts again: a     *)
(* registry that does not load is no registry.                             *)
Restart ==
    /\ ends < MaxEnds /\ ends' = ends + 1
    /\ \E torn \in BOOLEAN :
        LET loads == disk.loads /\ ~torn IN
        /\ disk' = [disk EXCEPT !.loads = loads]
        /\ consent' = IF loads THEN disk.consent ELSE [p \in Plugins |-> "gone"]
    /\ serving' = {p \in Plugins : consent'[p] # "gone"}
    /\ call' = [c \in Calls |-> Idle]
    /\ pending' = {} /\ shown' = 0
    /\ answer' = [r \in Ids |-> "none"]
    /\ reply' = [r \in Ids |-> NoReply]
    /\ UNCHANGED <<account, asked, word, words, fails>>

Serve(c) == ReadConsent(c) \/ Prompt(c) \/ Answered(c) \/ TimesOut(c) \/ Clear(c)
            \/ RecordAlways(c) \/ HandOver(c)
Answering(r) == TakeSender(r) \/ SendAnswer(r) \/ PromptCloses(r)
Viewer(p) == Revoke(p) \/ Reset(p) \/ Install(p) \/ Uninstall(p)
Others ==
    \/ Restart \/ SavesAsIs
    \/ \E c \in Calls : Serve(c) \/ \E p \in Plugins : Ask(c, p)
    \/ \E r \in Ids : Answering(r) \/ \E said \in Answers : Respond(r, said)
    \/ \E a \in Accounts \cup {0} : SignsIn(a)

Next == Others \/ \E p \in Plugins : Viewer(p)
Spec == Init /\ [][Next]_vars

(* A viewer who has said "don't ask again" changes his mind only once it   *)
(* was noted.  The code does not wait for it; Spec shows what happens.     *)
Noted(p) == \A c \in Calls : call[c].p = p =>
    /\ call[c].pc # "record" /\ call[c].said # "always"
    /\ call[c].pc = "wait" => "always" \notin {reply[call[c].req].word, answer[call[c].req]}
PatientNext == Others \/ \E p \in Plugins : Noted(p) /\ Viewer(p)
PatientSpec == Init /\ [][PatientNext]_vars

-----------------------------------------------------------------------------
(* Types; a consent is only ever recorded for an answer that said so.      *)
TypeOK ==
    /\ consent \in [Plugins -> Consents]
    /\ disk \in [loads : BOOLEAN, consent : [Plugins -> Consents]]
    /\ serving \subseteq Plugins /\ account \in Accounts \cup {0}
    /\ call \in [Calls -> [pc : {"idle", "consent", "prompt", "wait", "clear", "record", "hand"},
                           p : Plugins, req : 0..MaxAsks, token : Accounts \cup {0}, refused : BOOLEAN,
                           said : Answers \cup {"none"}]]
    /\ \A c \in Calls : call[c].pc = "record" => call[c].said = "always"
    /\ pending \subseteq Ids /\ shown \in 0..MaxAsks /\ asked \in 0..MaxAsks
    /\ answer \in [Ids -> Answers \cup {"none"}]
    /\ reply \in [Ids -> [word : Answers \cup {"none"},
                          at : {"none", "sent", "taken", "back", "over"}]]
    /\ word \in [Plugins -> Words]
    /\ words \in 0..MaxWords /\ fails \in 0..MaxFails /\ ends \in 0..MaxEnds

(* No prompt outlives its call: what consent_pending holds is a call's     *)
(* that still waits or is about to clear it ("Always clear the pending     *)
(* slot", broker.rs:243), and no two calls share one.                      *)
PromptsAreCalls ==
    /\ \A r \in pending : \E c \in Calls : call[c].req = r /\ call[c].pc \in {"wait", "clear"}
    /\ \A c, d \in Calls : call[c].req = call[d].req /\ call[c].req # 0 => c = d

(* The consent in force is the last that was said about the plugin,        *)
(* through failed saves, torn files and restarts: "always" only where the  *)
(* viewer said so or the last install granted it (the code asks nobody     *)
(* then), and after a revocation that succeeded nothing but either of      *)
(* these brings it back, in memory or on the disk ("Revocation takes       *)
(* effect immediately", docs/plugins/CAPABILITIES.md).                     *)
LastWordHolds == \A p \in Plugins :
    /\ consent[p] = "always" => word[p] \in Standing
    /\ word[p] = "no" => consent[p] # "always" /\ (disk.loads => disk.consent[p] # "always")

(* A call that began after a revocation gets nothing unless the viewer has *)
(* agreed since or an install has granted it: denied, unanswered and       *)
(* late-answered calls go away empty.                                      *)
RevokedGetsNothing == \A c \in Calls : call[c].pc = "hand" => ~call[c].refused

(* "Granting the capability at install does not hand over the credential;  *)
(* the first actual request triggers its own prompt" (docs/plugins/        *)
(* CAPABILITIES.md:37; 68: "independent of install-time grants"): what is  *)
(* handed over was allowed by an answer to the call's own prompt, or by a  *)
(* standing yes of the viewer.  The code does not keep it.                 *)
FirstRequestPrompts == \A c \in Calls :
    call[c].pc = "hand" => call[c].said \in {"allow", "always"} \/ word[call[c].p] = "yes"

(* Not kept by the code: a prompt a call waits for is on the page.         *)
PromptIsShown == \A c \in Calls :
    call[c].pc = "wait" /\ call[c].req \in pending => shown = call[c].req

(* Not kept by the code: the token handed over is of who is signed in.     *)
HandedIsCurrent == \A c \in Calls : call[c].pc = "hand" => call[c].token = account
=============================================================================
