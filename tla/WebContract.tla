----------------------------- MODULE WebContract -----------------------------
(***************************************************************************)
(* The contract between the web client and the gateway, as generated into   *)
(* apps/web/src/generated/api/types.gen.ts: what a request must carry,      *)
(* which statuses answer it, how its list is paged and what its answer      *)
(* holds.                                                                   *)
(*                                                                         *)
(* A data type gives for every field the kinds of value it may have: a      *)
(* basic kind, the members of an enumeration, the name of another type (for *)
(* one value or a list of them), "null" and "absent".  Every other answer   *)
(* is an ApiProblem.                                                        *)
(***************************************************************************)
EXTENDS Naturals, TLC

Text == {"text"}
Id == {"uuid"}
Number == {"int"}
Bool == {"bool"}
Time == {"time"}
Nullable(kinds) == kinds \cup {"null"}
Optional(kinds) == kinds \cup {"absent"}

-----------------------------------------------------------------------------
(* Submissions and runs. *)

SubmissionSourceData ==
    [submissionId |-> Id, problemId |-> Id, languageId |-> Text, source |-> Text]

SubmissionVerdict == {"AC", "WA", "PE", "TLE", "MLE", "OLE", "RE", "CE", "SE"}

SubmissionData ==
    [id |-> Id, problemId |-> Id, problemTitle |-> Text, languageId |-> Text,
     status |-> {"PENDING", "JUDGING", "DONE"}, createdAt |-> Time,
     verdict |-> Optional(SubmissionVerdict),
     cpuNs |-> Optional(Number), memoryBytes |-> Optional(Number),
     passedTestcaseCount |-> Optional(Number), executedTestcaseCount |-> Optional(Number),
     testcaseCount |-> Optional(Number), message |-> Optional(Text), finishedAt |-> Optional(Time)]

CustomRunOutput == [text |-> Text, capturedBytes |-> Number, truncated |-> Bool]

CustomRunLimits == [cpuNs |-> Number, memoryBytes |-> Number, clockNs |-> Number]

CustomRunData ==
    [problemId |-> Id, languageId |-> Text,
     status |-> {"COMPLETED", "COMPILE_ERROR", "RUNTIME_ERROR", "TIME_LIMIT_EXCEEDED",
                 "MEMORY_LIMIT_EXCEEDED", "OUTPUT_LIMIT_EXCEEDED"},
     cpuNs |-> Optional(Number), memoryBytes |-> Optional(Number),
     stdout |-> Optional({"CustomRunOutput"}), stderr |-> Optional({"CustomRunOutput"}),
     compileDiagnostic |-> Optional(Text), effectiveLimits |-> {"CustomRunLimits"}]

-----------------------------------------------------------------------------
(* The envelope. *)

CursorPagination == [kind |-> {"cursor"}, nextCursor |-> Nullable(Text), hasMore |-> Bool]

PagePagination ==
    [kind |-> {"page"}, page |-> Number, size |-> Number, totalElements |-> Number, totalPages |-> Number]

FieldViolation == [path |-> Text, code |-> Text, message |-> Text]

ApiProblem ==
    [type |-> Text, title |-> Text, status |-> Number, detail |-> Optional(Text),
     instance |-> Optional(Text), code |-> Text, violations |-> Optional({"FieldViolation"})]

-----------------------------------------------------------------------------
(* Accounts. *)

UserRole == {"USER", "ADMIN"}
UserStatus == {"ACTIVE", "DISABLED"}

UserAccountData ==
    [id |-> Id, username |-> Text, role |-> UserRole, status |-> UserStatus,
     passwordChangeRequired |-> Bool, createdAt |-> Time, updatedAt |-> Time,
     rowVersion |-> Number]

CsrfTokenData == [token |-> Text, headerName |-> {"X-CSRF-Token"}]

\* Both forms of a session in one: nobody has no user.
AuthSessionData == [authenticated |-> {"true", "false"}, user |-> Optional({"UserAccountData"})]

AuthenticatedSessionData == [authenticated |-> {"true"}, user |-> {"UserAccountData"}]

CreateUserData == [user |-> {"UserAccountData"}, temporaryPassword |-> Text]

ResetUserPasswordData == [temporaryPassword |-> Text]

UserListData == [items |-> {"UserAccountData"}]

-----------------------------------------------------------------------------
(* Problems. *)

ProblemDifficulty == {"UNRATED", "EASY", "MEDIUM", "HARD"}
ProblemCodeMode == {"ACM", "CORE"}
ProblemSort == {"UPDATED_DESC", "UPDATED_ASC", "TITLE_ASC"}
ProblemVisibility == {"PRIVATE", "PUBLIC"}
ProblemStatus == {"ACTIVE", "ARCHIVED"}
CalibrationStatus == {"DRAFT", "RUNNING", "VALID", "FAILED", "SUPERSEDED"}
JudgeVerdict == {"AC", "WA", "TLE", "MLE", "RE", "CE", "SE"}

PublicLanguageSummary == [id |-> Text, displayName |-> Text]

PublicProblemLanguage == [id |-> Text, displayName |-> Text, starterCode |-> Text]

ProblemSample ==
    [ordinal |-> Number, input |-> Text, output |-> Text, explanationMarkdown |-> Nullable(Text)]

ProblemSummary ==
    [problemId |-> Id, slug |-> Text, title |-> Text, difficulty |-> ProblemDifficulty,
     tags |-> Text, codeMode |-> ProblemCodeMode, allowedLanguages |-> {"PublicLanguageSummary"}]

ProblemListData == [items |-> {"ProblemSummary"}]

\* The fields that a problem's statement consists of.
Statement ==
    [title |-> Text, statementMarkdown |-> Text, inputDescriptionMarkdown |-> Text,
     outputDescriptionMarkdown |-> Text, constraintsMarkdown |-> Nullable(Text),
     hintMarkdown |-> Nullable(Text), difficulty |-> ProblemDifficulty, tags |-> Text,
     samples |-> {"ProblemSample"}]

ProblemDetail ==
    Statement @@ [problemId |-> Id, slug |-> Text, codeMode |-> ProblemCodeMode,
                  allowedLanguages |-> {"PublicProblemLanguage"}]

AdminProblem ==
    Statement @@ [id |-> Id, slug |-> Text, visibility |-> ProblemVisibility,
                  status |-> ProblemStatus, codeMode |-> ProblemCodeMode,
                  allowedLanguages |-> {"AdminProblemLanguage"},
                  testData |-> Nullable({"TestData"}), createdAt |-> Time, updatedAt |-> Time,
                  publishedAt |-> Nullable(Time), rowVersion |-> Number]

AdminProblemListData == [items |-> {"AdminProblemSummary"}]

AdminProblemLanguage ==
    [id |-> Text, displayName |-> Text, starterCode |-> Text,
     judgeTemplate |-> Optional(Nullable(Text)), solutionPrefix |-> Optional(Nullable(Text))]

TestDataManifestFile == [name |-> Text, sizeBytes |-> Number, sha256 |-> Text]

TestDataManifest == [testcaseCount |-> Number, totalBytes |-> Number, files |-> {"TestDataManifestFile"}]

BenchmarkSummary ==
    [sourceSha256 |-> Text, verdict |-> JudgeVerdict, maxCpuNs |-> Nullable(Number),
     maxMemoryBytes |-> Nullable(Number), maxClockNs |-> Nullable(Number)]

LanguageCalibration ==
    [id |-> Id, languageId |-> Text, status |-> CalibrationStatus, cpuNs |-> Nullable(Number),
     memoryBytes |-> Nullable(Number), clockNs |-> Nullable(Number),
     benchmarkSummary |-> Nullable({"BenchmarkSummary"}), errorMessage |-> Nullable(Text),
     createdAt |-> Time, updatedAt |-> Time, rowVersion |-> Number, problemId |-> Id,
     testDataDigest |-> Text]

PublishCheckItem ==
    [code |-> {"CONTENT", "SAMPLES", "LANGUAGE", "TEST_DATA", "DEPLOYMENT", "CALIBRATION",
               "ONLINE_JUDGE_NODE"},
     passed |-> Bool, message |-> Text]

PublishCheck == [ready |-> Bool, checks |-> {"PublishCheckItem"}]

AdminProblemSummary ==
    [id |-> Id, slug |-> Text, title |-> Text, visibility |-> ProblemVisibility,
     status |-> ProblemStatus, difficulty |-> ProblemDifficulty, hasTestData |-> Bool,
     updatedAt |-> Time, publishedAt |-> Nullable(Time), rowVersion |-> Number]

TestData ==
    [digest |-> Text, testcaseCount |-> Number, totalBytes |-> Number, updatedAt |-> Time,
     manifest |-> {"TestDataManifest"}]

-----------------------------------------------------------------------------
(* Nodes and languages. *)

JudgeNode == [nodeId |-> Text, languages |-> Text, online |-> Bool, lastSeenAt |-> Time]

JudgeNodeListData == [items |-> {"JudgeNode"}]

AdminLanguageSetting ==
    [id |-> Text, displayName |-> Text, solutionPrefix |-> Text, updatedAt |-> Time]

AdminLanguageSettingListData == [items |-> {"AdminLanguageSetting"}]

-----------------------------------------------------------------------------
(* What the requests hold. *)

CreateSubmissionRequest == [problemId |-> Id, languageId |-> Text, source |-> Text]

CustomRunRequest == [problemId |-> Id, languageId |-> Text, source |-> Text, inputText |-> Text]

LoginRequest == [username |-> Text, password |-> Text]

ChangePasswordRequest == [currentPassword |-> Text, newPassword |-> Text]

CreateUserRequest == [username |-> Text]

UpdateUserStatusRequest == [status |-> UserStatus, rowVersion |-> Number]

ResetUserPasswordRequest == [rowVersion |-> Number]

CreateProblemRequest ==
    [slug |-> Text, title |-> Text, difficulty |-> ProblemDifficulty, codeMode |-> ProblemCodeMode,
     languageId |-> Text]

UpdateProblemRequest ==
    Statement @@ [slug |-> Text, starterCode |-> Text, rowVersion |-> Number,
                  judgeTemplate |-> Optional(Text)]

RowVersionRequest == [rowVersion |-> Number]

CalibrateProblemRequest ==
    [languageId |-> Text, cpuNs |-> Number, memoryBytes |-> Number, clockNs |-> Nullable(Number),
     referenceSource |-> Text]

UpdateLanguageSettingRequest == [solutionPrefix |-> Text, expectedUpdatedAt |-> Time]

Bodies ==
       "createSubmission" :> CreateSubmissionRequest
    @@ "createCustomRun" :> CustomRunRequest
    @@ "login" :> LoginRequest
    @@ "changePassword" :> ChangePasswordRequest
    @@ "createUser" :> CreateUserRequest
    @@ "updateUserStatus" :> UpdateUserStatusRequest
    @@ "resetUserPassword" :> ResetUserPasswordRequest
    @@ "createProblem" :> CreateProblemRequest
    @@ "updateProblem" :> UpdateProblemRequest
    @@ "calibrateProblem" :> CalibrateProblemRequest
    @@ "publishProblem" :> RowVersionRequest
    @@ "unpublishProblem" :> RowVersionRequest
    @@ "archiveProblem" :> RowVersionRequest
    @@ "updateLanguageSetting" :> UpdateLanguageSettingRequest

-----------------------------------------------------------------------------
(* The operations: a request carries the guards; a changing one carries the *)
(* CSRF token, one made for an account names it, one that may be repeated   *)
(* has a key, one based on what was read has its version.                   *)

NoContent == [nothing |-> Optional({})]

Operation(guards, ok, paged, data) == [guards |-> guards, ok |-> ok, paged |-> paged, data |-> data]

CreateCustomRun == Operation({"csrf", "account"}, {200}, "none", CustomRunData)
ListProblemSubmissions == Operation({"account"}, {200}, "page", SubmissionData)
CreateSubmission == Operation({"csrf", "account", "key"}, {200, 201}, "none", SubmissionData)
GetSubmissionSource == Operation({"account"}, {200}, "none", SubmissionSourceData)
GetSubmission == Operation({}, {200}, "none", SubmissionData)
GetSubmissionRequest == Operation({}, {200}, "none", SubmissionData)
ListProblems == Operation({}, {200}, "cursor", ProblemListData)
GetProblem == Operation({}, {200}, "none", ProblemDetail)
GetCsrfToken == Operation({}, {200}, "none", CsrfTokenData)
GetAuthSession == Operation({}, {200}, "none", AuthSessionData)
Login == Operation({"csrf"}, {200}, "none", AuthenticatedSessionData)
Logout == Operation({"csrf"}, {204}, "none", NoContent)
ChangePassword == Operation({"csrf"}, {204}, "none", NoContent)
ListAdminProblems == Operation({}, {200}, "page", AdminProblemListData)
CreateProblem == Operation({"csrf"}, {201}, "none", AdminProblem)
DeleteProblem == Operation({"csrf", "version"}, {204}, "none", NoContent)
GetAdminProblem == Operation({}, {200}, "none", AdminProblem)
UpdateProblem == Operation({"csrf", "version"}, {200}, "none", AdminProblem)
ArchiveProblem == Operation({"csrf", "version"}, {200}, "none", AdminProblem)
GetTestData == Operation({}, {200}, "none", TestData)
ReplaceTestData == Operation({"csrf"}, {200}, "none", TestData)
ListUsers == Operation({}, {200}, "page", UserListData)
CreateUser == Operation({"csrf"}, {201}, "none", CreateUserData)
UpdateUserStatus == Operation({"csrf", "version"}, {200}, "none", UserAccountData)
ResetUserPassword == Operation({"csrf", "version"}, {200}, "none", ResetUserPasswordData)
PreviewProblem == Operation({}, {200}, "none", ProblemDetail)
CalibrateProblem == Operation({"csrf"}, {200}, "none", LanguageCalibration)
CheckProblemPublication == Operation({}, {200}, "none", PublishCheck)
PublishProblem == Operation({"csrf", "version"}, {200}, "none", AdminProblem)
UnpublishProblem == Operation({"csrf", "version"}, {200}, "none", AdminProblem)
ListJudgeNodes == Operation({}, {200}, "none", JudgeNodeListData)
ListLanguageSettings == Operation({}, {200}, "none", AdminLanguageSettingListData)
UpdateLanguageSetting == Operation({"csrf", "version"}, {200}, "none", AdminLanguageSetting)

Contract ==
       "createCustomRun" :> CreateCustomRun
    @@ "listProblemSubmissions" :> ListProblemSubmissions
    @@ "createSubmission" :> CreateSubmission
    @@ "getSubmissionSource" :> GetSubmissionSource
    @@ "getSubmission" :> GetSubmission
    @@ "getSubmissionRequest" :> GetSubmissionRequest
    @@ "listProblems" :> ListProblems
    @@ "getProblem" :> GetProblem
    @@ "getCsrfToken" :> GetCsrfToken
    @@ "getAuthSession" :> GetAuthSession
    @@ "login" :> Login
    @@ "logout" :> Logout
    @@ "changePassword" :> ChangePassword
    @@ "listAdminProblems" :> ListAdminProblems
    @@ "createProblem" :> CreateProblem
    @@ "deleteProblem" :> DeleteProblem
    @@ "getAdminProblem" :> GetAdminProblem
    @@ "updateProblem" :> UpdateProblem
    @@ "archiveProblem" :> ArchiveProblem
    @@ "getTestData" :> GetTestData
    @@ "replaceTestData" :> ReplaceTestData
    @@ "listUsers" :> ListUsers
    @@ "createUser" :> CreateUser
    @@ "updateUserStatus" :> UpdateUserStatus
    @@ "resetUserPassword" :> ResetUserPassword
    @@ "previewProblem" :> PreviewProblem
    @@ "calibrateProblem" :> CalibrateProblem
    @@ "checkProblemPublication" :> CheckProblemPublication
    @@ "publishProblem" :> PublishProblem
    @@ "unpublishProblem" :> UnpublishProblem
    @@ "listJudgeNodes" :> ListJudgeNodes
    @@ "listLanguageSettings" :> ListLanguageSettings
    @@ "updateLanguageSetting" :> UpdateLanguageSetting
=============================================================================
