------------------------------ MODULE ApiClient ------------------------------
(***************************************************************************)
(* How the web client reads what the gateway answers: lib/api/api-client.ts *)
(* with the schemas that the feature modules hand to it, the rules of       *)
(* app/query-client.ts for trying again, and what every API function sends. *)
(*                                                                         *)
(* A response is what fetch returns: a status, the code of a problem, the   *)
(* form of its body ("json", "problem", "none" for no body, "other" for     *)
(* anything else, a bad body or a missing header), whether it names a       *)
(* Location, and the value in it.  An outcome is what the API function      *)
(* returns or throws.                                                       *)
(***************************************************************************)
EXTENDS WebContract

-----------------------------------------------------------------------------
(* The schemas: for each field the kinds of value the schema accepts.       *)
(* Bounds, and .refine rules that tie fields together, are not part of a    *)
(* type and are left out.                                                   *)

cursorPaginationSchema == [kind |-> {"cursor"}, nextCursor |-> Nullable(Text), hasMore |-> Bool]

pagePaginationSchema ==
    [kind |-> {"page"}, page |-> Number, size |-> Number, totalElements |-> Number,
     totalPages |-> Number]

fieldViolationSchema == [path |-> Text, code |-> Text, message |-> Text]

apiProblemSchema ==
    [type |-> Text, title |-> Text, status |-> Number, detail |-> Optional(Text),
     instance |-> Optional(Text), code |-> Text, violations |-> Optional({"FieldViolation"})]

csrfSchema == [token |-> Text, headerName |-> {"X-CSRF-Token"}]

\* z.string() where a uuid or a time is promised takes either.
AnyText == Text \cup Id \cup Time

userAccountSchema ==
    [id |-> Id, username |-> Text, role |-> {"USER", "ADMIN"}, status |-> {"ACTIVE", "DISABLED"},
     passwordChangeRequired |-> Bool, createdAt |-> Time, updatedAt |-> Time, rowVersion |-> Number]

authenticatedSessionSchema == [authenticated |-> {"true"}, user |-> {"UserAccountData"}]

authSessionSchema == [authenticated |-> {"true", "false"}, user |-> Optional({"UserAccountData"})]

userSchema ==
    [id |-> Id, username |-> AnyText, role |-> {"USER", "ADMIN"}, status |-> {"ACTIVE", "DISABLED"},
     passwordChangeRequired |-> Bool, createdAt |-> Time, updatedAt |-> Time, rowVersion |-> Number]

userListSchema == [items |-> {"UserAccountData"}]

createdUserSchema == [user |-> {"UserAccountData"}, temporaryPassword |-> Text]

resetPasswordSchema == [temporaryPassword |-> Text]

languageSchema == [id |-> Text, displayName |-> AnyText, solutionPrefix |-> AnyText, updatedAt |-> AnyText]

languageListSchema == [items |-> {"AdminLanguageSetting"}]

judgeNodeSchema == [nodeId |-> Text, languages |-> AnyText, online |-> Bool, lastSeenAt |-> Time]

judgeNodeListSchema == [items |-> {"JudgeNode"}]

sampleSchema ==
    [ordinal |-> Number, input |-> AnyText, output |-> AnyText, explanationMarkdown |-> Nullable(AnyText)]

languageSummarySchema == [id |-> AnyText, displayName |-> AnyText]

difficulty == {"UNRATED", "EASY", "MEDIUM", "HARD"}

problemSummarySchema ==
    [problemId |-> Id, slug |-> AnyText, title |-> AnyText, difficulty |-> difficulty, tags |-> AnyText,
     codeMode |-> {"ACM", "CORE"}, allowedLanguages |-> {"PublicLanguageSummary"}]

statementSchema ==
    [title |-> AnyText, statementMarkdown |-> AnyText, inputDescriptionMarkdown |-> AnyText,
     outputDescriptionMarkdown |-> AnyText, constraintsMarkdown |-> Nullable(AnyText),
     hintMarkdown |-> Nullable(AnyText), difficulty |-> difficulty, tags |-> AnyText,
     samples |-> {"ProblemSample"}]

problemDetailSchema ==
    statementSchema @@ [problemId |-> Id, slug |-> AnyText, codeMode |-> {"ACM", "CORE"},
                        allowedLanguages |-> {"PublicProblemLanguage"}]

testDataSchema ==
    [digest |-> Text, testcaseCount |-> Number, totalBytes |-> Number, updatedAt |-> AnyText,
     manifest |-> {"TestDataManifest"}]

adminSummarySchema ==
    [id |-> Id, slug |-> AnyText, title |-> AnyText, visibility |-> {"PRIVATE", "PUBLIC"},
     status |-> {"ACTIVE", "ARCHIVED"}, difficulty |-> difficulty, hasTestData |-> Bool,
     updatedAt |-> AnyText, publishedAt |-> Nullable(AnyText), rowVersion |-> Number]

adminLanguageSchema ==
    [id |-> Text, displayName |-> AnyText, starterCode |-> AnyText,
     judgeTemplate |-> Optional(Nullable(AnyText)), solutionPrefix |-> Optional(Nullable(AnyText))]

adminProblemSchema ==
    statementSchema @@ [id |-> Id, slug |-> AnyText, visibility |-> {"PRIVATE", "PUBLIC"},
                        status |-> {"ACTIVE", "ARCHIVED"}, codeMode |-> {"ACM", "CORE"},
                        allowedLanguages |-> {"AdminProblemLanguage"},
                        testData |-> Nullable({"TestData"}), createdAt |-> AnyText,
                        updatedAt |-> AnyText, publishedAt |-> Nullable(AnyText), rowVersion |-> Number]

calibrationSchema ==
    [id |-> Id, problemId |-> Id, languageId |-> AnyText,
     status |-> {"DRAFT", "RUNNING", "VALID", "FAILED", "SUPERSEDED"}, cpuNs |-> Nullable(Number),
     memoryBytes |-> Nullable(Number), clockNs |-> Nullable(Number), testDataDigest |-> AnyText,
     benchmarkSummary |-> Nullable({"BenchmarkSummary"}), errorMessage |-> Nullable(AnyText),
     createdAt |-> AnyText, updatedAt |-> AnyText, rowVersion |-> Number]

benchmarkSchema ==
    [sourceSha256 |-> AnyText, verdict |-> {"AC", "WA", "TLE", "MLE", "RE", "CE", "SE"},
     maxCpuNs |-> Nullable(Number), maxMemoryBytes |-> Nullable(Number),
     maxClockNs |-> Nullable(Number)]

publishCheckSchema == [ready |-> Bool, checks |-> {"PublishCheckItem"}]

runSchema ==
    [problemId |-> Id, languageId |-> Text,
     status |-> {"COMPLETED", "COMPILE_ERROR", "RUNTIME_ERROR", "TIME_LIMIT_EXCEEDED",
                 "MEMORY_LIMIT_EXCEEDED", "OUTPUT_LIMIT_EXCEEDED"},
     cpuNs |-> Optional(Number), memoryBytes |-> Optional(Number),
     stdout |-> Optional({"CustomRunOutput"}), stderr |-> Optional({"CustomRunOutput"}),
     compileDiagnostic |-> Optional(AnyText), effectiveLimits |-> {"CustomRunLimits"}]

submissionSchema ==
    [id |-> Id, problemId |-> Id, problemTitle |-> AnyText, languageId |-> Text,
     status |-> {"PENDING", "JUDGING", "DONE"}, createdAt |-> Time,
     verdict |-> Optional({"AC", "WA", "PE", "CE", "RE", "TLE", "MLE", "OLE", "SE"}),
     cpuNs |-> Optional(Number), memoryBytes |-> Optional(Number),
     passedTestcaseCount |-> Optional(Number), executedTestcaseCount |-> Optional(Number),
     testcaseCount |-> Optional(Number), message |-> Optional(AnyText), finishedAt |-> Optional(Time)]

sourceSchema == [submissionId |-> Id, problemId |-> Id, languageId |-> Text, source |-> AnyText]

\* safeParse takes every value of the type.
Admits(schema, type) ==
    \A field \in DOMAIN schema :
        (IF field \in DOMAIN type THEN type[field] ELSE {"absent"}) \subseteq schema[field]

-----------------------------------------------------------------------------
(* Responses and outcomes. *)

Response(status, code, form, located, value) ==
    [status |-> status, code |-> code, form |-> form, located |-> located, value |-> value]

Outcome(kind, status, code, value) ==
    [kind |-> kind, status |-> status, code |-> code, value |-> value]

NoValue == [nothing |-> 0]

contractError(r) == Outcome("contract", r.status, "none", NoValue)

\* Why fetch threw: the reason of the signal decides over the name of the exception.
failureKind(exception, reason) ==
    CASE "TimeoutError" \in {exception, reason} -> "timeout"
      [] reason # "none" \/ exception = "AbortError" -> "aborted"
      [] OTHER -> "network"

Failed(exception, reason) == Outcome(failureKind(exception, reason), 0, "none", NoValue)

throwProblem(r) ==
    IF r.form = "problem" THEN Outcome("http", r.status, r.code, NoValue) ELSE contractError(r)

IsOk(r) == r.status \in 200..299

requestJson(r) ==
    CASE ~IsOk(r) -> throwProblem(r)
      [] r.status = 204 \/ r.form # "json" -> contractError(r)
      [] r.status \in {201, 202} /\ ~r.located -> contractError(r)
      [] OTHER -> Outcome("ok", r.status, "none", r.value)

requestVoid(r) ==
    CASE ~IsOk(r) -> throwProblem(r)
      [] r.status # 204 \/ r.form = "other" -> contractError(r)
      [] OTHER -> Outcome("ok", r.status, "none", NoValue)

requestMultipart(r) ==
    CASE ~IsOk(r) -> throwProblem(r)
      [] r.form # "json" \/ (r.status = 201 /\ ~r.located) -> contractError(r)
      [] OTHER -> Outcome("ok", r.status, "none", r.value)

Reader(name, r) ==
    CASE name = "json" -> requestJson(r)
      [] name = "void" -> requestVoid(r)
      [] name = "multipart" -> requestMultipart(r)

\* May a query ask again after its failures-th failure?
shouldRetryQuery(failures, outcome) ==
    /\ failures < 1
    /\ outcome.kind \in {"network", "timeout"} \/ (outcome.kind = "http" /\ outcome.status >= 500)

-----------------------------------------------------------------------------
(* What the API functions send and with what they read the answer. *)

Call(reader, sends, paged, schema) ==
    [reader |-> reader, sends |-> sends, paged |-> paged, schema |-> schema]

authApi ==
       "getCsrfToken" :> Call("json", {}, "none", csrfSchema)
    @@ "getAuthSession" :> Call("json", {}, "none", authSessionSchema)
    @@ "login" :> Call("json", {"csrf"}, "none", authenticatedSessionSchema)
    @@ "logout" :> Call("void", {"csrf"}, "none", NoContent)
    @@ "changePassword" :> Call("void", {"csrf"}, "none", NoContent)

adminUsersApi ==
       "listUsers" :> Call("json", {}, "page", userListSchema)
    @@ "createUser" :> Call("json", {"csrf"}, "none", createdUserSchema)
    @@ "updateUserStatus" :> Call("json", {"csrf", "version"}, "none", userSchema)
    @@ "resetUserPassword" :> Call("json", {"csrf", "version"}, "none", resetPasswordSchema)

adminLanguagesApi ==
       "listLanguageSettings" :> Call("json", {}, "none", languageListSchema)
    @@ "updateLanguageSetting" :> Call("json", {"csrf", "version"}, "none", languageSchema)

judgeNodesApi == "listJudgeNodes" :> Call("json", {}, "none", judgeNodeListSchema)

problemsApi ==
       "listProblems" :> Call("json", {}, "cursor", [items |-> {"ProblemSummary"}])
    @@ "getProblem" :> Call("json", {}, "none", problemDetailSchema)
    @@ "listAdminProblems" :> Call("json", {}, "page", [items |-> {"AdminProblemSummary"}])
    @@ "createProblem" :> Call("json", {"csrf"}, "none", adminProblemSchema)
    @@ "getAdminProblem" :> Call("json", {}, "none", adminProblemSchema)
    @@ "updateProblem" :> Call("json", {"csrf", "version"}, "none", adminProblemSchema)

workbenchApi ==
       "getTestData" :> Call("json", {}, "none", testDataSchema)
    @@ "replaceTestData" :> Call("multipart", {"csrf"}, "none", testDataSchema)
    @@ "calibrateProblem" :> Call("json", {"csrf"}, "none", calibrationSchema)
    @@ "checkProblemPublication" :> Call("json", {}, "none", publishCheckSchema)
    @@ "publishProblem" :> Call("json", {"csrf", "version"}, "none", adminProblemSchema)
    @@ "unpublishProblem" :> Call("json", {"csrf", "version"}, "none", adminProblemSchema)
    @@ "archiveProblem" :> Call("json", {"csrf", "version"}, "none", adminProblemSchema)
    @@ "deleteProblem" :> Call("void", {"csrf", "version"}, "none", NoContent)

customRunApi == "createCustomRun" :> Call("json", {"csrf", "account"}, "none", runSchema)

submissionsApi ==
       "createSubmission" :> Call("json", {"csrf", "account", "key"}, "none", submissionSchema)
    @@ "getSubmission" :> Call("json", {}, "none", submissionSchema)
    @@ "getSubmissionRequest" :> Call("json", {}, "none", submissionSchema)

historyApi ==
       "listProblemSubmissions" :> Call("json", {"account"}, "page", submissionSchema)
    @@ "getSubmissionSource" :> Call("json", {"account"}, "none", sourceSchema)

Client ==
    authApi @@ adminUsersApi @@ adminLanguagesApi @@ judgeNodesApi @@ problemsApi @@ workbenchApi
        @@ customRunApi @@ submissionsApi @@ historyApi

\* What the pages put into a request: the fields, and what each can hold.
problemSaved ==
    statementSchema @@ [slug |-> Text, starterCode |-> Text, judgeTemplate |-> Optional(Text),
                        rowVersion |-> Number]

problemCreated ==
    [slug |-> Text, title |-> Text, difficulty |-> difficulty, codeMode |-> {"ACM", "CORE"},
     languageId |-> Text]

calibrationStarted ==
    [languageId |-> Text, cpuNs |-> Number, memoryBytes |-> Number, clockNs |-> Nullable(Number),
     referenceSource |-> Text]

Sent ==
       "createSubmission" :> [problemId |-> Id, languageId |-> Text, source |-> Text]
    @@ "createCustomRun" :> [problemId |-> Id, languageId |-> Text, source |-> Text, inputText |-> Text]
    @@ "login" :> [username |-> Text, password |-> Text]
    @@ "changePassword" :> [currentPassword |-> Text, newPassword |-> Text]
    @@ "createUser" :> [username |-> Text]
    @@ "updateUserStatus" :> [status |-> {"ACTIVE", "DISABLED"}, rowVersion |-> Number]
    @@ "resetUserPassword" :> [rowVersion |-> Number]
    @@ "createProblem" :> problemCreated
    @@ "updateProblem" :> problemSaved
    @@ "calibrateProblem" :> calibrationStarted
    @@ "publishProblem" :> [rowVersion |-> Number]
    @@ "unpublishProblem" :> [rowVersion |-> Number]
    @@ "archiveProblem" :> [rowVersion |-> Number]
    @@ "updateLanguageSetting" :> [solutionPrefix |-> Text, expectedUpdatedAt |-> Time]

\* The schemas that read a part of an answer.
PartsFit ==
    /\ Admits(userAccountSchema, UserAccountData) /\ Admits(userSchema, UserAccountData)
    /\ Admits(languageSchema, AdminLanguageSetting) /\ Admits(judgeNodeSchema, JudgeNode)
    /\ Admits(sampleSchema, ProblemSample) /\ Admits(problemSummarySchema, ProblemSummary)
    /\ Admits(languageSummarySchema, PublicLanguageSummary)
    /\ Admits(languageSummarySchema, PublicProblemLanguage)
    /\ Admits(adminSummarySchema, AdminProblemSummary) /\ Admits(testDataSchema, TestData)
    /\ Admits(adminLanguageSchema, AdminProblemLanguage)
    /\ Admits(benchmarkSchema, BenchmarkSummary)
    /\ Admits(cursorPaginationSchema, CursorPagination)
    /\ Admits(pagePaginationSchema, PagePagination)
    /\ Admits(apiProblemSchema, ApiProblem) /\ Admits(fieldViolationSchema, FieldViolation)

\* An answer as the contract promises it.
Promised(name, status) ==
    Response(status, "none", IF status = 204 THEN "none" ELSE "json", status = 201, NoValue)

\* Every operation the client calls is in the contract; it gets what it must
\* carry, its promised answers are read, and a problem keeps its status and code.
ClientMeetsContract ==
    /\ DOMAIN Client = DOMAIN Contract \ {"previewProblem"}
    /\ \A name \in DOMAIN Client :
           LET call == Client[name] operation == Contract[name] IN
           /\ operation.guards \subseteq call.sends
           /\ operation.paged = call.paged
           /\ ("csrf" \in operation.guards /\ name \in DOMAIN Bodies) =>
                  /\ DOMAIN Sent[name] \subseteq DOMAIN Bodies[name]
                  /\ \A field \in DOMAIN Bodies[name] :
                         IF field \in DOMAIN Sent[name]
                         THEN Sent[name][field] \ AnyText \subseteq Bodies[name][field]
                         ELSE "absent" \in Bodies[name][field]
           /\ Admits(call.schema, operation.data)
           /\ \A status \in operation.ok : Reader(call.reader, Promised(name, status)).kind = "ok"
           /\ \A status \in {400, 401, 403, 409, 429, 500, 503} :
                  Reader(call.reader, Response(status, "CODE", "problem", FALSE, NoValue)) =
                      Outcome("http", status, "CODE", NoValue)

ASSUME ContractAssumption == PartsFit /\ ClientMeetsContract
=============================================================================
