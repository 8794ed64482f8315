------------------------------- MODULE Params -------------------------------
(***************************************************************************)
(* The operating parameters, app_params, and the PATCH of /params (api.go  *)
(* paramsPatch(), hmnfd.go parseParamJson()).  Every PATCH runs in a       *)
(* goroutine of its own, copies the whole struct, changes what its body    *)
(* names, writes the whole struct back, reads it again for the answer and  *)
(* stores that under KV_PARAM_KEY.  No lock is taken: copies and writes of *)
(* the struct are field by field and interleave with those of others.      *)
(* The GET of /params only reads.                                          *)
(***************************************************************************)
EXTENDS Naturals

CONSTANTS
    PatchReq,     \* PATCH requests
    Field,        \* parameters that a PATCH may change
    Value,        \* their values
    Unset,        \* -1 and "xxx", which stand for "not in the body"
    Bodies,       \* the bodies that PATCHes may have
    StartParams,  \* what defaults, environment and command line may give
    NoParams,     \* KV_PARAM_KEY does not exist yet
    MaxKvFaults   \* bound: failing stores of KV_PARAM_KEY

\* set: the parameters a body names, with their new values; fixed: it names
\* the port or scn_in_url, too, which no PATCH may change.
Body == [set : UNION {[F -> Value \cup {Unset}] : F \in SUBSET Field},
         fixed : BOOLEAN]

\* The parameters whose new value is taken up: a body that gives one of them
\* the value it is unset with passes for one that does not name it.
Given(b) == {f \in DOMAIN b.set : b.set[f] # Unset}

ASSUME ParamAssumption ==
    /\ Bodies \subseteq Body /\ Bodies # {}
    /\ StartParams \subseteq [Field -> Value]
    /\ Unset \notin Value
    /\ MaxKvFaults \in Nat

VARIABLES
    app_params,   \* the parameters in force
    paramKey,     \* value of KV_PARAM_KEY
    ppc,          \* where each PATCH is
    body,         \* its body
    tpd,          \* its copy of the parameters
    left,         \* the fields it has still to copy or to write
    reply,        \* its answer
    before,       \* history: PATCHes already over when this one arrived
    kvFaults      \* stores that failed so far

patchVars == <<ppc, body, tpd, left, reply, before>>
paramVars == <<app_params, paramKey, patchVars, kvFaults>>

ParamInit ==
    /\ app_params \in StartParams
    /\ paramKey = NoParams
    /\ ppc = [r \in PatchReq |-> "new"]
    /\ body = [r \in PatchReq |-> CHOOSE b \in Bodies : TRUE]
    /\ tpd = [r \in PatchReq |-> app_params]
    /\ left = [r \in PatchReq |-> {}]
    /\ reply = [r \in PatchReq |-> "none"]
    /\ before = [r \in PatchReq |-> {}]
    /\ kvFaults = 0

PatchAnswer(r, a) == /\ ppc' = [ppc EXCEPT ![r] = "done"]
                     /\ reply' = [reply EXCEPT ![r] = a]

\* Field f is done; after the last one the handler goes on to `next'.
Visit(r, f, next) ==
    /\ left' = [left EXCEPT ![r] = IF @ = {f} THEN Field ELSE @ \ {f}]
    /\ ppc' = [ppc EXCEPT ![r] = IF left[r] = {f} THEN next ELSE @]

-----------------------------------------------------------------------------
PatchArrive(r) ==
    /\ ppc[r] = "new"
    /\ \E b \in Bodies : body' = [body EXCEPT ![r] = b]
    /\ ppc' = [ppc EXCEPT ![r] = "copy"]
    /\ left' = [left EXCEPT ![r] = Field]
    /\ before' = [before EXCEPT ![r] = {q \in PatchReq : ppc[q] = "done"}]
    /\ UNCHANGED <<app_params, paramKey, tpd, reply, kvFaults>>

\* tpd = app_params
PatchCopy(r) ==
    /\ ppc[r] = "copy"
    /\ \E f \in left[r] :
          /\ tpd' = [tpd EXCEPT ![r][f] = app_params[f]]
          /\ Visit(r, f, "parse")
    /\ UNCHANGED <<app_params, paramKey, body, reply, before, kvFaults>>

\* A body that is not JSON, or has a field of the wrong type, is refused.
PatchUnmarshalFails(r) ==
    /\ ppc[r] = "parse"
    /\ PatchAnswer(r, "refused")
    /\ UNCHANGED <<app_params, paramKey, body, tpd, left, before, kvFaults>>

Merged(params, b) ==
    [f \in Field |-> IF f \in Given(b) THEN b.set[f] ELSE params[f]]

\* Mutant of PatchParse: the fields that may not change are logged only.
PatchParseAll(r) ==
    /\ ppc[r] = "parse"
    /\ tpd' = [tpd EXCEPT ![r] = Merged(@, body[r])]
    /\ ppc' = [ppc EXCEPT ![r] = "write"]
    /\ UNCHANGED <<app_params, paramKey, body, left, reply, before, kvFaults>>

\* The fields that the body names; nothing is applied if one of them may not
\* be changed.
PatchParse(r) ==
    /\ ppc[r] = "parse"
    /\ \/ /\ ~body[r].fixed
          /\ tpd' = [tpd EXCEPT ![r] = Merged(@, body[r])]
          /\ ppc' = [ppc EXCEPT ![r] = "write"]
          /\ UNCHANGED reply
       \/ /\ body[r].fixed
          /\ PatchAnswer(r, "refused")
          /\ UNCHANGED tpd
    /\ UNCHANGED <<app_params, paramKey, body, left, before, kvFaults>>

\* app_params = tpd
PatchWrite(r) ==
    /\ ppc[r] = "write"
    /\ \E f \in left[r] :
          /\ app_params' = [app_params EXCEPT ![f] = tpd[r][f]]
          /\ Visit(r, f, "marshal")
    /\ UNCHANGED <<paramKey, body, tpd, reply, before, kvFaults>>

\* genCurParamJson() copies the struct once more, for the answer.
PatchMarshal(r) ==
    /\ ppc[r] = "marshal"
    /\ \E f \in left[r] :
          /\ tpd' = [tpd EXCEPT ![r][f] = app_params[f]]
          /\ Visit(r, f, "store")
    /\ UNCHANGED <<app_params, paramKey, body, reply, before, kvFaults>>

\* Store(KV_PARAM_KEY); if it fails the answer is an error, although the
\* parameters are in force.
PatchStore(r) ==
    /\ ppc[r] = "store"
    /\ \/ /\ paramKey' = tpd[r]
          /\ PatchAnswer(r, "ok")
          /\ UNCHANGED kvFaults
       \/ /\ kvFaults < MaxKvFaults
          /\ kvFaults' = kvFaults + 1
          /\ paramKey' \in {paramKey, tpd[r]}
          /\ PatchAnswer(r, "error")
    /\ UNCHANGED <<app_params, body, tpd, left, before>>

paramsPatch(r) == \/ PatchCopy(r) \/ PatchUnmarshalFails(r) \/ PatchParse(r)
                  \/ PatchWrite(r) \/ PatchMarshal(r) \/ PatchStore(r)

-----------------------------------------------------------------------------
(* Properties *)

\* A PATCH that passes the checks of its fields and overlaps with r or
\* follows it.
Competes(q, r) == /\ q # r
                  /\ ppc[q] # "new" /\ ~body[q].fixed
                  /\ q \notin before[r]

\* The values an answered PATCH gives are in force, and under KV_PARAM_KEY, until
\* another PATCH overlaps with it or follows it; a refused one never changes
\* anything, and one that was over before never comes back, although each
\* writes all parameters from a copy it made earlier.
AckedInForce ==
    \A r \in PatchReq : reply[r] = "ok" =>
        \/ \E q \in PatchReq : Competes(q, r)
        \/ \A f \in Given(body[r]) :
              /\ app_params[f] = body[r].set[f]
              /\ paramKey[f] = body[r].set[f]
=============================================================================
