--------------------------- MODULE DeclaredSchema ---------------------------
(***************************************************************************)
(* The tables the code works with, as the ORM models declare them, and the *)
(* columns of the job table, which has no model and is written with raw    *)
(* SQL.                                                                    *)
(***************************************************************************)
EXTENDS RelationalSchema

PlatformModels == {
    Table("tenants", {"id", "slug", "name", "schema_name", "status", "is_active", "contact_email", "logo_url",
        "primary_color", "secondary_color", "created_at", "deleted_at", "deleted_by_user_id"}, {}),
    Table("platform_users", {"id", "email", "password_hash", "full_name", "avatar_url", "is_active",
        "password_changed_at", "created_at", "last_login_at"}, {}),
    Table("platform_refresh_tokens", {"id", "user_id", "token_hash", "expires_at", "is_revoked",
        "replaced_by", "ip_address", "user_agent", "created_at"}, {<<"user_id", "platform_users">>,
        <<"replaced_by", "platform_refresh_tokens">>}),
    Table("platform_otp_codes", {"id", "user_id", "otp_hash", "purpose", "expires_at", "is_used", "attempts",
        "created_at"}, {<<"user_id", "platform_users">>}),
    Table("platform_branding", {"id", "platform_name", "company_name", "support_email", "support_phone",
        "logo_url", "favicon_url", "primary_color", "accent_color", "updated_at"}, {}),
    Table("refresh_token_index", {"token_hash", "schema_name", "user_id", "created_at"}, {}) }
UserModels == {
    Table("users", {"id", "email", "password_hash", "role", "full_name", "identifier", "acad_program_id",
        "is_active", "must_change_password", "password_changed_at", "created_at", "last_login_at"},
        {<<"acad_program_id", "acad_programs">>}),
    Table("refresh_tokens", {"id", "user_id", "token_hash", "expires_at", "is_revoked", "replaced_by",
        "ip_address", "user_agent", "created_at"}, {<<"user_id", "users">>, <<"replaced_by",
        "refresh_tokens">>}),
    Table("otp_codes", {"id", "user_id", "otp_hash", "purpose", "expires_at", "is_used", "attempts",
        "created_at"}, {<<"user_id", "users">>}) }
AuditModels == {
    Table("audit_logs", {"id", "event_type", "actor_user_id", "actor_role", "tenant_id", "schema_name",
        "target_entity", "target_id", "metadata", "ip_address", "user_agent", "created_at"}, {<<"tenant_id",
        "tenants">>}) }
NotificationModels == {
    Table("notifications", {"id", "recipient_user_id", "notification_type", "title", "body", "entity_type",
        "entity_id", "is_read", "created_at", "read_at"}, {}) }
LegacyModels == {
    Table("_legacy_academic_departments", {"id", "name", "code", "is_active", "created_at"}, {}),
    Table("_legacy_academic_programs", {"id", "dept_id", "name", "code", "duration_years", "is_active",
        "created_at"}, {<<"dept_id", "_legacy_academic_departments">>}) }
StorageModels == {
    Table("storage_assets", {"id", "uploaded_by_user_id", "entity_type", "entity_id", "object_key",
        "original_filename", "size_bytes", "content_type", "created_at", "expires_at", "deleted_at"}, {}) }
ProgramModels == {
    Table("programs", {"id", "version", "parent_version_id", "title", "degree_type", "department",
        "duration_years", "total_credits", "acad_program_id", "status", "ai_model", "prompt_hash",
        "approved_by_user_id", "approved_at", "created_by_user_id", "created_at", "updated_at"},
        {<<"parent_version_id", "programs">>, <<"acad_program_id", "acad_programs">>}),
    Table("program_outcomes", {"id", "program_id", "code", "description", "bloom_level", "display_order",
        "created_at"}, {<<"program_id", "programs">>}),
    Table("courses", {"id", "program_id", "code", "title", "credits", "semester", "is_elective",
        "is_ai_generated", "hours_lecture", "hours_tutorial", "hours_practical", "description", "created_at",
        "updated_at"}, {<<"program_id", "programs">>}),
    Table("course_prerequisites", {"id", "course_id", "prerequisite_course_id"}, {<<"course_id", "courses">>,
        <<"prerequisite_course_id", "courses">>}) }
SyllabusModels == {
    Table("syllabi", {"id", "course_id", "version", "parent_version_id", "status", "custom_instructions",
        "change_note", "ai_model", "prompt_hash", "created_by_user_id", "approved_by_user_id", "approved_at",
        "locked_by_user_id", "locked_at", "created_at", "updated_at"}, {<<"course_id", "courses">>,
        <<"parent_version_id", "syllabi">>}),
    Table("course_outcomes", {"id", "syllabus_id", "code", "description", "bloom_level", "display_order",
        "created_at", "updated_at"}, {<<"syllabus_id", "syllabi">>}),
    Table("co_po_mappings", {"id", "co_id", "po_id", "mapping_strength", "justification", "created_at"},
        {<<"co_id", "course_outcomes">>, <<"po_id", "program_outcomes">>}),
    Table("syllabus_units", {"id", "syllabus_id", "unit_number", "title", "topics", "total_hours", "pedagogy",
        "bloom_summary", "created_at", "updated_at"}, {<<"syllabus_id", "syllabi">>}),
    Table("syllabus_references", {"id", "syllabus_id", "title", "authors", "year", "ref_type", "source",
        "doi", "isbn", "url", "publisher", "is_confirmed", "created_at", "updated_at"}, {<<"syllabus_id",
        "syllabi">>}) }
CourseKitModels == {
    Table("course_kits", {"id", "syllabus_id", "unit_number", "version", "parent_version_id", "status",
        "complexity_level", "tone", "custom_instructions", "teaching_plan", "lesson_plans", "resources",
        "ai_model", "prompt_hash", "created_by_user_id", "published_by_user_id", "published_at", "created_at",
        "updated_at"}, {<<"syllabus_id", "syllabi">>, <<"parent_version_id", "course_kits">>}),
    Table("kit_slides", {"id", "kit_id", "slide_number", "title", "content", "speaker_notes", "bloom_level",
        "co_reference", "created_at", "updated_at"}, {<<"kit_id", "course_kits">>}),
    Table("kit_quizlets", {"id", "kit_id", "question_number", "question_text", "question_type", "options",
        "answer_key", "answer_explanation", "bloom_level", "co_reference", "created_at", "updated_at"},
        {<<"kit_id", "course_kits">>}),
    Table("kit_assignments", {"id", "kit_id", "assignment_number", "title", "assignment_type",
        "question_text", "complexity_level", "current_events_toggle", "model_answer", "rubric", "bloom_level",
        "co_reference", "created_at", "updated_at"}, {<<"kit_id", "course_kits">>}) }
PackageModels == {
    Table("learning_packages", {"id", "syllabus_id", "unit_number", "version", "status", "top_n",
        "item_count", "qdrant_indexed", "ai_model", "prompt_hash", "created_by_user_id", "curated_at",
        "created_at", "updated_at"}, {<<"syllabus_id", "syllabi">>}),
    Table("package_items", {"id", "package_id", "source_type", "title", "url", "content_hash", "metadata",
        "relevance_score", "faculty_recommended", "added_by_user_id", "display_order", "qdrant_indexed",
        "created_at", "updated_at"}, {<<"package_id", "learning_packages">>}) }
PackageQAModels == {
    Table("package_qa_sessions", {"id", "package_id", "student_user_id", "created_at", "updated_at"},
        {<<"package_id", "learning_packages">>}),
    Table("package_qa_messages", {"id", "session_id", "role", "content", "sources", "created_at"},
        {<<"session_id", "package_qa_sessions">>}) }
LabAssignmentModels == {
    Table("lab_assignments", {"id", "syllabus_id", "kit_assignment_id", "created_by_user_id", "title",
        "description", "instructions", "submission_type", "language", "rubric", "test_cases", "max_marks",
        "deadline", "ai_not_permitted", "allow_late", "plagiarism_threshold", "status", "published_at",
        "closed_at", "created_at", "updated_at"}, {<<"syllabus_id", "syllabi">>}) }
LabSubmissionModels == {
    Table("lab_submissions", {"id", "assignment_id", "student_user_id", "submission_type", "content_url",
        "content_text", "submitted_at", "is_late", "eval_job_id", "ai_scan_result", "ai_scan_status",
        "status"}, {<<"assignment_id", "lab_assignments">>}),
    Table("lab_evaluations", {"id", "submission_id", "rubric_scores", "overall_ai_score",
        "overall_human_score", "confidence_level", "test_results", "static_analysis", "plagiarism_score",
        "plagiarism_matches", "ai_model", "prompt_hash", "created_at", "updated_at"}, {<<"submission_id",
        "lab_submissions">>}) }
LabGradeModels == {
    Table("grade_ledger", {"id", "submission_id", "assignment_id", "student_user_id", "ratified_by_user_id",
        "final_score", "max_marks", "ratification_note", "ratified_at"}, {<<"submission_id",
        "lab_submissions">>}),
    Table("evaluator_assignments", {"id", "assignment_id", "evaluator_user_id", "assigned_by_user_id",
        "assigned_at", "is_active"}, {<<"assignment_id", "lab_assignments">>, <<"evaluator_user_id",
        "users">>}) }
ResearchProblemModels == {
    Table("research_problems", {"id", "guide_user_id", "student_user_id", "title", "abstract",
        "research_questions", "source", "novelty_score", "feasibility_score", "clarity_score",
        "ai_recommendation", "ai_reasoning", "ai_model", "prompt_hash", "eval_job_id", "status",
        "guide_decision", "guide_note", "decided_at", "created_at", "updated_at"}, {}) }
ResearchDocumentModels == {
    Table("research_documents", {"id", "research_problem_id", "student_user_id", "version", "file_url",
        "file_name", "plagiarism_score", "ai_content_score", "format_score", "clarity_score",
        "evaluation_report", "ai_model", "prompt_hash", "eval_job_id", "status", "guide_comment",
        "guide_reviewed_at", "submitted_at"}, {<<"research_problem_id", "research_problems">>}) }
VivaModels == {
    Table("viva_sessions", {"id", "research_problem_id", "document_id", "student_user_id", "guide_user_id",
        "session_token", "ai_questions", "ai_responses", "video_url", "transcript", "ai_evaluation",
        "overall_ai_score", "guide_evaluation", "overall_guide_score", "consent_recorded", "ai_model",
        "eval_job_id", "scheduled_at", "expires_at", "completed_at", "ratified_at", "status"},
        {<<"research_problem_id", "research_problems">>, <<"document_id", "research_documents">>}) }
ExamPaperModels == {
    Table("exam_papers", {"id", "course_id", "created_by", "title", "exam_type", "total_marks",
        "duration_mins", "units_included", "question_format", "requested_dist", "actual_dist",
        "special_instructions", "ai_model", "prompt_hash", "failure_reason", "generation_job_id", "status",
        "submitted_at", "approved_by", "approved_at", "board_comment", "sealed_at", "release_at",
        "encrypted_blob_key", "encryption_key_ref", "release_job_id", "released_at", "exam_workflow",
        "section_config", "co_coverage_report", "unit_coverage_report", "scrutinizer_id", "scrutinized_at",
        "scrutinizer_comment", "double_evaluation_enabled", "discrepancy_threshold_pct", "created_at",
        "updated_at"}, {}) }
ExamQuestionModels == {
    Table("exam_questions", {"id", "exam_paper_id", "unit_number", "co_code", "bloom_level", "question_type",
        "question_text", "options", "correct_option", "marks", "model_answer", "marking_scheme",
        "set_membership", "ai_generated", "is_edited", "section_label", "choice_group", "co_ids",
        "created_at", "updated_at"}, {<<"exam_paper_id", "exam_papers">>}),
    Table("blooms_compliance_reports", {"id", "exam_paper_id", "requested_dist", "actual_dist",
        "compliance_ok", "violations", "co_coverage_ok", "unit_coverage_ok", "generated_at"},
        {<<"exam_paper_id", "exam_papers">>}) }
QuestionBankModels == {
    Table("question_bank", {"id", "course_id", "source_paper_id", "unit_number", "co_ids", "bloom_level",
        "question_type", "question_text", "options", "correct_option", "marks", "model_answer",
        "marking_scheme", "section_label", "is_approved", "usage_count", "ai_generated", "created_at",
        "updated_at"}, {<<"source_paper_id", "exam_papers">>}),
    Table("internal_marks_summary", {"id", "student_id", "course_id", "semester", "academic_year",
        "internal1_marks", "internal2_marks", "assignment_marks", "attendance_marks", "total_internal",
        "max_internal", "status", "submitted_by", "submitted_at", "locked_by", "locked_at", "created_at",
        "updated_at"}, {}) }
ScriptBatchModels == {
    Table("scanned_script_batches", {"id", "exam_paper_id", "uploaded_by", "label", "file_count",
        "processed_count", "status", "created_at", "updated_at"}, {}) }
ScriptModels == {
    Table("scanned_scripts", {"id", "exam_paper_id", "masked_id", "student_user_id", "student_roll_ref",
        "upload_url", "page_count", "status", "eval_job_id", "objective_auto_score", "evaluator_id",
        "second_evaluator_id", "submitted_by", "submitted_at", "finalised_by", "finalised_at", "ocr_status",
        "ocr_text", "ocr_quality_score", "scan_quality_flags", "batch_id", "duplicate_of", "page_image_keys",
        "locked_by", "locked_at", "created_at", "updated_at"}, {<<"batch_id", "scanned_script_batches">>}) }
ScriptMarkModels == {
    Table("script_evaluations", {"id", "script_id", "question_id", "question_type", "max_marks",
        "evaluation_round", "ai_suggested_marks", "ai_justification", "ai_model", "prompt_hash",
        "keyword_hits", "rubric_mapping", "ai_confidence", "page_range", "evaluator_marks", "evaluator_note",
        "board_adjusted_marks", "board_adjustment_note", "final_marks", "created_at", "updated_at"},
        {<<"script_id", "scanned_scripts">>}),
    Table("exam_score_ledger", {"id", "script_id", "exam_paper_id", "student_user_id", "student_roll_ref",
        "total_marks", "max_marks", "has_board_adjustment", "finalised_by", "finalisation_note",
        "finalised_at"}, {<<"script_id", "scanned_scripts">>}) }
BellCurveModels == {
    Table("bell_curve_analyses", {"id", "exam_paper_id", "analysis_job_id", "score_count", "raw_stats",
        "anomalies", "normalisation_suggestion", "cross_evaluator_stats", "triggered_by", "status",
        "triggered_at", "analysis_completed_at", "created_at"}, {}),
    Table("bell_curve_decisions", {"id", "analysis_id", "exam_paper_id", "decision", "normalisation_method",
        "normalisation_params", "projected_stats", "ratified_by", "ratification_note", "ratified_at"},
        {<<"analysis_id", "bell_curve_analyses">>}) }
NormalizedScoreModels == {
    Table("bell_curve_normalized_scores", {"id", "decision_id", "analysis_id", "exam_paper_id",
        "student_user_id", "student_roll_ref", "raw_score", "normalised_score", "max_marks",
        "normalisation_method", "created_at"}, {<<"decision_id", "bell_curve_decisions">>}) }
AttendanceModels == {
    Table("sis_attendance_sessions", {"id", "course_id", "section_id", "faculty_user_id", "session_date",
        "period_number", "duration_minutes", "topic_covered", "status", "first_marked_at", "locked_at",
        "reopened_by", "reopened_at", "reopen_reason", "created_at", "updated_at"}, {<<"course_id",
        "courses">>, <<"section_id", "acad_sections">>}),
    Table("sis_attendance_records", {"id", "session_id", "student_id", "status", "remarks", "marked_by",
        "marked_at", "edited_by", "edited_at", "edit_reason"}, {<<"session_id", "sis_attendance_sessions">>}) }
ExamSessionModels == {
    Table("sis_exam_centers", {"id", "center_code", "center_name", "address", "capacity", "is_internal",
        "is_active", "created_at", "updated_at"}, {}),
    Table("sis_exam_sessions", {"id", "semester_id", "session_type", "session_name", "academic_year",
        "start_date", "end_date", "status", "notes", "source_exam_session_id", "attempt_number",
        "hall_ticket_generated_at", "hall_ticket_generated_by", "created_by", "created_at", "updated_at"},
        {<<"semester_id", "acad_semesters">>, <<"source_exam_session_id", "sis_exam_sessions">>}),
    Table("sis_exam_schedules", {"id", "session_id", "course_id", "section_id", "center_id", "exam_date",
        "start_time", "end_time", "room_number", "notes", "created_by", "created_at", "updated_at"},
        {<<"session_id", "sis_exam_sessions">>, <<"course_id", "courses">>, <<"section_id", "acad_sections">>,
        <<"center_id", "sis_exam_centers">>}),
    Table("sis_exam_invigilation", {"id", "session_id", "schedule_id", "center_id", "room_number",
        "faculty_user_id", "assigned_by", "notes", "created_at"}, {<<"session_id", "sis_exam_sessions">>,
        <<"schedule_id", "sis_exam_schedules">>, <<"center_id", "sis_exam_centers">>}) }
HallTicketModels == {
    Table("sis_hall_ticket_batches", {"id", "semester_id", "scope", "scope_ref_id", "generated_by",
        "generated_at", "ticket_count", "ticket_prefix", "notes", "created_at"}, {<<"semester_id",
        "acad_semesters">>}),
    Table("sis_hall_ticket_eligibility", {"id", "student_id", "semester_id", "publish_status", "status",
        "computed_at", "attendance_threshold_used", "computed_academic_year", "computed_semester_name",
        "attendance_pct", "has_shortage", "marks_all_locked", "marks_all_filled", "failure_reasons",
        "override_by", "override_at", "override_reason", "override_status", "batch_id", "hall_ticket_number",
        "exam_session_id", "exam_schedule_id", "exam_center_id", "room_number", "seat_number", "created_at",
        "updated_at"}, {<<"semester_id", "acad_semesters">>, <<"batch_id", "sis_hall_ticket_batches">>}) }
MarksModels == {
    Table("sis_marks_components", {"id", "course_id", "section_id", "semester_id", "created_by",
        "component_type", "name", "max_marks", "weightage", "due_date", "display_order", "status",
        "published_at", "locked_at", "locked_by", "reopened_by", "reopened_at", "reopen_reason", "is_active",
        "created_at", "updated_at"}, {<<"course_id", "courses">>, <<"section_id", "acad_sections">>,
        <<"semester_id", "acad_semesters">>}),
    Table("sis_marks_entries", {"id", "component_id", "student_id", "marks_obtained", "remarks", "marked_by",
        "marked_at", "edited_by", "edited_at", "edit_reason", "created_at", "updated_at"}, {<<"component_id",
        "sis_marks_components">>}) }
DirectoryModels == {
    Table("sis_schools", {"id", "code", "name", "description", "is_active", "created_at", "updated_at"}, {}),
    Table("sis_student_profiles", {"user_id", "usn", "admission_year", "date_of_birth", "phone",
        "address_line1", "address_city", "address_state", "emergency_contact_name", "emergency_contact_phone",
        "photo_url", "notes", "is_active", "created_at", "updated_at"}, {<<"user_id", "users">>}),
    Table("sis_faculty_profiles", {"user_id", "employee_id", "designation", "qualifications", "bio",
        "office_location", "phone", "joining_date", "specialization", "primary_department_id", "photo_url",
        "is_active", "created_at", "updated_at"}, {<<"user_id", "users">>, <<"primary_department_id",
        "acad_departments">>}) }
DeclarationModels == {
    Table("sis_grading_policies", {"id", "name", "program_id", "pass_percentage", "is_default", "is_active",
        "created_by", "created_at", "updated_at"}, {}),
    Table("sis_grading_policy_bands", {"id", "policy_id", "grade_letter", "min_percentage", "max_percentage",
        "grade_point", "is_pass", "display_order", "created_at"}, {<<"policy_id", "sis_grading_policies">>}),
    Table("sis_result_declarations", {"id", "exam_session_id", "semester_id", "snapshot_academic_year",
        "snapshot_semester_name", "snapshot_grading_policy_name", "declaration_type", "source_declaration_id",
        "grading_policy_id", "title", "notes", "internal_marks_required", "status", "verified_by",
        "verified_at", "published_by", "published_at", "locked_by", "locked_at", "created_by", "created_at",
        "updated_at"}, {<<"exam_session_id", "sis_exam_sessions">>, <<"semester_id", "acad_semesters">>,
        <<"source_declaration_id", "sis_result_declarations">>, <<"grading_policy_id",
        "sis_grading_policies">>}) }
SubjectResultModels == {
    Table("sis_external_marks", {"id", "declaration_id", "student_id", "course_id", "section_id",
        "external_marks_obtained", "external_marks_max", "is_absent", "attempt_number", "entered_by",
        "entered_at", "edited_by", "edited_at", "edit_reason", "created_at", "updated_at"},
        {<<"declaration_id", "sis_result_declarations">>, <<"course_id", "courses">>, <<"section_id",
        "acad_sections">>}),
    Table("sis_subject_results", {"id", "declaration_id", "student_id", "course_id", "section_id",
        "semester_id", "internal_marks", "external_marks", "grace_marks", "total_marks", "max_marks",
        "percentage", "grade_letter", "grade_point", "is_pass", "result_status", "credits_attempted",
        "credits_earned", "attempt_number", "computed_at", "created_at", "updated_at"}, {<<"declaration_id",
        "sis_result_declarations">>, <<"course_id", "courses">>, <<"section_id", "acad_sections">>,
        <<"semester_id", "acad_semesters">>}) }
SemesterResultModels == {
    Table("sis_semester_results", {"id", "declaration_id", "student_id", "semester_id", "sgpa", "cgpa",
        "total_credits_attempted", "total_credits_earned", "overall_result_status", "section_rank",
        "program_rank", "computed_at", "created_at", "updated_at"}, {<<"declaration_id",
        "sis_result_declarations">>, <<"semester_id", "acad_semesters">>}),
    Table("sis_grace_marks_log", {"id", "declaration_id", "subject_result_id", "student_id", "course_id",
        "grace_marks_applied", "reason", "authorized_by", "authorized_at", "revoked_by", "revoked_at",
        "revoke_reason", "created_at"}, {<<"declaration_id", "sis_result_declarations">>,
        <<"subject_result_id", "sis_subject_results">>}) }
AcademicModels == {
    Table("acad_departments", {"id", "school_id", "name", "code", "description", "is_active", "created_at",
        "updated_at"}, {<<"school_id", "sis_schools">>}),
    Table("acad_programs", {"id", "department_id", "name", "code", "degree_type", "duration_years",
        "is_active", "created_at", "updated_at"}, {<<"department_id", "acad_departments">>}),
    Table("acad_batches", {"id", "program_id", "name", "start_year", "end_year", "is_active", "created_at",
        "updated_at"}, {<<"program_id", "acad_programs">>}),
    Table("acad_semesters", {"id", "batch_id", "number", "label", "start_date", "end_date", "is_active",
        "created_at"}, {<<"batch_id", "acad_batches">>}),
    Table("acad_sections", {"id", "semester_id", "name", "max_strength", "is_active", "created_at"},
        {<<"semester_id", "acad_semesters">>}),
    Table("acad_enrollments", {"id", "student_id", "section_id", "enrolled_at", "is_active"}, {<<"section_id",
        "acad_sections">>}) }
AssignmentModels == {
    Table("subject_assignments", {"id", "course_id", "faculty_user_id", "semester_id", "assigned_by_user_id",
        "assigned_at", "is_active", "role_in_course", "revoked_at", "revoked_by_user_id"}, {<<"course_id",
        "courses">>, <<"semester_id", "acad_semesters">>}) }

\* The columns that raw SQL names: the job table's, and those of the reverted programs.
JobColumns == Table("task_jobs", {"id", "tenant_id", "task_type", "queue_name", "status", "payload", "result",
    "error", "created_at", "started_at", "completed_at"}, {})
RevertedColumns == Table("programs", {"id", "status", "updated_at"}, {})

PublicModels == PlatformModels \cup AuditModels

TenantModels ==
    UserModels \cup NotificationModels \cup LegacyModels \cup StorageModels \cup ProgramModels
    \cup SyllabusModels \cup CourseKitModels \cup PackageModels \cup PackageQAModels
    \cup LabAssignmentModels \cup LabSubmissionModels \cup LabGradeModels \cup ResearchProblemModels
    \cup ResearchDocumentModels \cup VivaModels \cup ExamPaperModels \cup ExamQuestionModels
    \cup QuestionBankModels \cup ScriptBatchModels \cup ScriptModels \cup ScriptMarkModels
    \cup BellCurveModels \cup NormalizedScoreModels \cup AttendanceModels \cup ExamSessionModels
    \cup HallTicketModels \cup MarksModels \cup DirectoryModels \cup DeclarationModels
    \cup SubjectResultModels \cup SemesterResultModels \cup AcademicModels \cup AssignmentModels
=============================================================================
