----------------------------- MODULE Migrations -----------------------------
(***************************************************************************)
(* The two chains of Alembic revisions: the public schema's (P) and that   *)
(* of every tenant's schema (T), each revision with the statements of its  *)
(* upgrade() and of its downgrade().                                       *)
(***************************************************************************)
EXTENDS RelationalSchema

(* The public schema.                                                      *)

P0001Up == <<
    Table("tenants", {"id", "slug", "name", "schema_name", "is_active", "created_at"}, {}),
    Table("platform_users", {"id", "email", "password_hash", "full_name", "is_active", "password_changed_at",
        "created_at", "last_login_at"}, {}),
    Table("platform_refresh_tokens", {"id", "user_id", "token_hash", "expires_at", "is_revoked",
        "replaced_by", "ip_address", "user_agent", "created_at"}, {<<"user_id", "platform_users">>,
        <<"replaced_by", "platform_refresh_tokens">>}),
    Table("platform_otp_codes", {"id", "user_id", "otp_hash", "purpose", "expires_at", "is_used", "attempts",
        "created_at"}, {<<"user_id", "platform_users">>}),
    Table("refresh_token_index", {"token_hash", "schema_name", "user_id", "created_at"}, {}) >>
P0001Down == Drops(<<"refresh_token_index", "platform_otp_codes", "platform_refresh_tokens", "platform_users",
    "tenants">>)
P0002Up == <<Add("tenants", {"status"}, {})>>
P0002Down == <<Lose("tenants", {"status"})>>
P0003Up == <<Table("audit_logs", {"id", "event_type", "actor_user_id", "actor_role", "tenant_id",
    "schema_name", "target_entity", "target_id", "metadata", "ip_address", "user_agent", "created_at"},
    {<<"tenant_id", "tenants">>})>>
P0003Down == <<Drop("audit_logs")>>
P0004Up == <<Table("task_jobs", {"id", "tenant_id", "task_type", "queue_name", "status", "payload", "result",
    "error", "created_at", "started_at", "completed_at"}, {<<"tenant_id", "tenants">>})>>
P0004Down == <<Drop("task_jobs")>>
P0005Up == <<Add("audit_logs", {"no_mutate"}, {})>>
P0005Down == <<Lose("audit_logs", {"no_mutate"})>>
P0006Up == <<Add("tenants", {"contact_email"}, {})>>
P0006Down == <<Lose("tenants", {"contact_email"})>>
P0007Up == <<Add("tenants", {"logo_url", "primary_color", "secondary_color"}, {})>>
P0007Down == <<Lose("tenants", {"secondary_color", "primary_color", "logo_url"})>>
P0008Up == <<>>
P0008Down == <<>>
P0009Up == <<>>
P0009Down == <<>>
P0010Up == <<
    Add("platform_users", {"avatar_url"}, {}),
    Table("platform_branding", {"id", "platform_name", "company_name", "support_email", "support_phone",
        "logo_url", "favicon_url", "primary_color", "accent_color", "updated_at"}, {}) >>
P0010Down == <<Drop("platform_branding"), Lose("platform_users", {"avatar_url"})>>
P0011Up == <<Add("tenants", {"deleted_at", "deleted_by_user_id"}, {})>>
P0011Down == <<Lose("tenants", {"deleted_by_user_id", "deleted_at"})>>

----------------------------------------------------------------------------
(* A tenant's schema.                                                      *)

T0001Up == <<
    Table("users", {"id", "email", "password_hash", "role", "full_name", "identifier", "is_active",
        "password_changed_at", "created_at", "last_login_at"}, {}),
    Table("refresh_tokens", {"id", "user_id", "token_hash", "expires_at", "is_revoked", "replaced_by",
        "ip_address", "user_agent", "created_at"}, {<<"user_id", "users">>, <<"replaced_by",
        "refresh_tokens">>}),
    Table("otp_codes", {"id", "user_id", "otp_hash", "purpose", "expires_at", "is_used", "attempts",
        "created_at"}, {<<"user_id", "users">>}) >>
T0001Down == Drops(<<"otp_codes", "refresh_tokens", "users">>)
T0002Up == <<
    CreateType("tenantrole", {"ADMIN", "DEAN", "FACULTY", "STUDENT", "BOARD", "GUIDE"}),
    CreateType("otppurpose", {"PASSWORD_RESET"}),
    Retype("users", "role", "tenantrole"),
    Retype("otp_codes", "purpose", "otppurpose") >>
T0002Down == <<Retype("otp_codes", "purpose", "VARCHAR"), Retype("users", "role", "VARCHAR"),
    DropType("otppurpose"), DropType("tenantrole")>>
T0003Up == <<Table("notifications", {"id", "recipient_user_id", "notification_type", "title", "body",
    "entity_type", "entity_id", "is_read", "created_at", "read_at"}, {})>>
T0003Down == <<Drop("notifications")>>
T0004Up == <<Table("storage_assets", {"id", "uploaded_by_user_id", "entity_type", "entity_id", "object_key",
    "original_filename", "size_bytes", "content_type", "created_at", "expires_at", "deleted_at"}, {})>>
T0004Down == <<Drop("storage_assets")>>
T0005Up == <<
    Table("programs", {"id", "version", "parent_version_id", "title", "degree_type", "department",
        "duration_years", "total_credits", "status", "ai_model", "prompt_hash", "approved_by_user_id",
        "approved_at", "created_by_user_id", "created_at", "updated_at"}, {<<"parent_version_id",
        "programs">>}),
    Table("program_outcomes", {"id", "program_id", "code", "description", "bloom_level", "display_order",
        "created_at"}, {<<"program_id", "programs">>}),
    Table("courses", {"id", "program_id", "code", "title", "credits", "semester", "is_elective",
        "is_ai_generated", "hours_lecture", "hours_tutorial", "hours_practical", "description", "created_at",
        "updated_at"}, {<<"program_id", "programs">>}),
    Table("course_prerequisites", {"id", "course_id", "prerequisite_course_id"}, {<<"course_id", "courses">>,
        <<"prerequisite_course_id", "courses">>}) >>
T0005Down == Drops(<<"course_prerequisites", "courses", "program_outcomes", "programs">>)
T0006Up == <<
    Table("syllabi", {"id", "course_id", "version", "parent_version_id", "status", "custom_instructions",
        "change_note", "ai_model", "prompt_hash", "created_by_user_id", "approved_by_user_id", "approved_at",
        "locked_by_user_id", "locked_at", "created_at", "updated_at"}, {<<"course_id", "courses">>,
        <<"parent_version_id", "syllabi">>}),
    Table("course_outcomes", {"id", "syllabus_id", "code", "description", "bloom_level", "display_order",
        "created_at", "updated_at"}, {<<"syllabus_id", "syllabi">>}),
    Table("co_po_mappings", {"id", "co_id", "po_id", "mapping_strength", "justification", "created_at"},
        {<<"co_id", "course_outcomes">>, <<"po_id", "program_outcomes">>}),
    Table("syllabus_units", {"id", "syllabus_id", "unit_number", "title", "topics", "total_hours", "pedagogy",
        "bloom_summary", "created_at", "updated_at"}, {<<"syllabus_id", "syllabi">>}),
    Table("syllabus_references", {"id", "syllabus_id", "title", "authors", "year", "ref_type", "source",
        "doi", "isbn", "url", "publisher", "is_confirmed", "created_at", "updated_at"}, {<<"syllabus_id",
        "syllabi">>}) >>
T0006Down == Drops(<<"syllabus_references", "syllabus_units", "co_po_mappings", "course_outcomes",
    "syllabi">>)
T0007Up == <<
    Table("course_kits", {"id", "syllabus_id", "unit_number", "version", "parent_version_id", "status",
        "complexity_level", "tone", "custom_instructions", "teaching_plan", "lesson_plans", "resources",
        "ai_model", "prompt_hash", "created_by_user_id", "published_by_user_id", "published_at", "created_at",
        "updated_at"}, {<<"syllabus_id", "syllabi">>, <<"parent_version_id", "course_kits">>}),
    Table("kit_slides", {"id", "kit_id", "slide_number", "title", "content", "speaker_notes", "bloom_level",
        "co_reference", "created_at", "updated_at"}, {<<"kit_id", "course_kits">>}),
    Table("kit_quizlets", {"id", "kit_id", "question_number", "question_text", "question_type", "options",
        "answer_key", "answer_explanation", "bloom_level", "co_reference", "created_at", "updated_at"},
        {<<"kit_id", "course_kits">>}),
    Table("kit_assignments", {"id", "kit_id", "assignment_number", "title", "assignment_type",
        "question_text", "complexity_level", "current_events_toggle", "model_answer", "rubric", "bloom_level",
        "co_reference", "created_at", "updated_at"}, {<<"kit_id", "course_kits">>}) >>
T0007Down == Drops(<<"kit_assignments", "kit_quizlets", "kit_slides", "course_kits">>)
T0008Up == <<
    Table("learning_packages", {"id", "syllabus_id", "unit_number", "version", "status", "top_n",
        "item_count", "qdrant_indexed", "ai_model", "prompt_hash", "created_by_user_id", "curated_at",
        "created_at", "updated_at"}, {<<"syllabus_id", "syllabi">>}),
    Table("package_items", {"id", "package_id", "source_type", "title", "url", "content_hash", "metadata",
        "relevance_score", "faculty_recommended", "added_by_user_id", "display_order", "qdrant_indexed",
        "created_at", "updated_at"}, {<<"package_id", "learning_packages">>}),
    Table("package_qa_sessions", {"id", "package_id", "student_user_id", "created_at", "updated_at"},
        {<<"package_id", "learning_packages">>}),
    Table("package_qa_messages", {"id", "session_id", "role", "content", "sources", "created_at"},
        {<<"session_id", "package_qa_sessions">>}) >>
T0008Down == Drops(<<"package_qa_messages", "package_qa_sessions", "package_items", "learning_packages">>)
T0009Up == <<
    Table("lab_assignments", {"id", "syllabus_id", "kit_assignment_id", "created_by_user_id", "title",
        "description", "submission_type", "language", "rubric", "test_cases", "max_marks", "deadline",
        "ai_not_permitted", "allow_late", "plagiarism_threshold", "status", "published_at", "closed_at",
        "created_at", "updated_at"}, {<<"syllabus_id", "syllabi">>}),
    Table("lab_submissions", {"id", "assignment_id", "student_user_id", "submission_type", "content_url",
        "content_text", "submitted_at", "is_late", "eval_job_id", "ai_scan_result", "ai_scan_status",
        "status"}, {<<"assignment_id", "lab_assignments">>}),
    Table("lab_evaluations", {"id", "submission_id", "rubric_scores", "overall_ai_score",
        "overall_human_score", "confidence_level", "test_results", "static_analysis", "plagiarism_score",
        "plagiarism_matches", "ai_model", "prompt_hash", "created_at", "updated_at"}, {<<"submission_id",
        "lab_submissions">>}),
    Table("grade_ledger", {"id", "submission_id", "assignment_id", "student_user_id", "ratified_by_user_id",
        "final_score", "max_marks", "ratification_note", "ratified_at"}, {<<"submission_id",
        "lab_submissions">>}) >>
T0009Down == Drops(<<"grade_ledger", "lab_evaluations", "lab_submissions", "lab_assignments">>)
T0010Up == <<
    Table("research_problems", {"id", "guide_user_id", "student_user_id", "title", "abstract",
        "research_questions", "source", "novelty_score", "feasibility_score", "clarity_score",
        "ai_recommendation", "ai_reasoning", "ai_model", "prompt_hash", "eval_job_id", "status",
        "guide_decision", "guide_note", "decided_at", "created_at", "updated_at"}, {}),
    Table("research_documents", {"id", "research_problem_id", "student_user_id", "version", "file_url",
        "file_name", "plagiarism_score", "ai_content_score", "format_score", "clarity_score",
        "evaluation_report", "ai_model", "prompt_hash", "eval_job_id", "status", "guide_comment",
        "guide_reviewed_at", "submitted_at"}, {<<"research_problem_id", "research_problems">>}),
    Table("viva_sessions", {"id", "research_problem_id", "document_id", "student_user_id", "guide_user_id",
        "session_token", "ai_questions", "ai_responses", "video_url", "transcript", "ai_evaluation",
        "overall_ai_score", "guide_evaluation", "overall_guide_score", "consent_recorded", "ai_model",
        "eval_job_id", "scheduled_at", "expires_at", "completed_at", "ratified_at", "status"},
        {<<"research_problem_id", "research_problems">>, <<"document_id", "research_documents">>}) >>
T0010Down == Drops(<<"viva_sessions", "research_documents", "research_problems">>)
T0011Up == <<
    Table("exam_papers", {"id", "course_id", "created_by", "title", "exam_type", "total_marks",
        "duration_mins", "units_included", "question_format", "requested_dist", "actual_dist",
        "special_instructions", "ai_model", "prompt_hash", "generation_job_id", "status", "submitted_at",
        "approved_by", "approved_at", "board_comment", "sealed_at", "release_at", "encrypted_blob_key",
        "encryption_key_ref", "release_job_id", "released_at", "created_at", "updated_at"}, {}),
    Table("exam_questions", {"id", "exam_paper_id", "unit_number", "co_code", "bloom_level", "question_type",
        "question_text", "options", "correct_option", "marks", "model_answer", "marking_scheme",
        "set_membership", "ai_generated", "is_edited", "created_at", "updated_at"}, {<<"exam_paper_id",
        "exam_papers">>}),
    Table("blooms_compliance_reports", {"id", "exam_paper_id", "requested_dist", "actual_dist",
        "compliance_ok", "violations", "generated_at"}, {<<"exam_paper_id", "exam_papers">>}) >>
T0011Down == Drops(<<"blooms_compliance_reports", "exam_questions", "exam_papers">>)
T0012Up == <<
    Table("scanned_scripts", {"id", "exam_paper_id", "masked_id", "student_user_id", "student_roll_ref",
        "upload_url", "page_count", "status", "eval_job_id", "objective_auto_score", "evaluator_id",
        "second_evaluator_id", "submitted_by", "submitted_at", "finalised_by", "finalised_at", "ocr_status",
        "ocr_text", "locked_by", "locked_at", "created_at", "updated_at"}, {}),
    Table("script_evaluations", {"id", "script_id", "question_id", "question_type", "max_marks",
        "evaluation_round", "ai_suggested_marks", "ai_justification", "ai_model", "prompt_hash",
        "evaluator_marks", "evaluator_note", "final_marks", "created_at", "updated_at"}, {<<"script_id",
        "scanned_scripts">>}),
    Table("exam_score_ledger", {"id", "script_id", "exam_paper_id", "student_user_id", "student_roll_ref",
        "total_marks", "max_marks", "finalised_by", "finalisation_note", "finalised_at"}, {<<"script_id",
        "scanned_scripts">>}) >>
T0012Down == Drops(<<"exam_score_ledger", "script_evaluations", "scanned_scripts">>)
T0013Up == <<
    Table("bell_curve_analyses", {"id", "exam_paper_id", "analysis_job_id", "score_count", "raw_stats",
        "anomalies", "normalisation_suggestion", "cross_evaluator_stats", "triggered_by", "status",
        "triggered_at", "analysis_completed_at", "created_at"}, {}),
    Table("bell_curve_decisions", {"id", "analysis_id", "exam_paper_id", "decision", "normalisation_method",
        "normalisation_params", "projected_stats", "ratified_by", "ratification_note", "ratified_at"},
        {<<"analysis_id", "bell_curve_analyses">>}),
    Table("bell_curve_normalized_scores", {"id", "decision_id", "analysis_id", "exam_paper_id",
        "student_user_id", "student_roll_ref", "raw_score", "normalised_score", "max_marks",
        "normalisation_method", "created_at"}, {<<"decision_id", "bell_curve_decisions">>}) >>
T0013Down == Drops(<<"bell_curve_normalized_scores", "bell_curve_decisions", "bell_curve_analyses">>)
T0014Up == <<Add("users", {"must_change_password"}, {})>>
T0014Down == <<Lose("users", {"must_change_password"})>>
T0015Up == <<
    Table("academic_departments", {"id", "name", "code", "is_active", "created_at"}, {}),
    Table("academic_programs", {"id", "dept_id", "name", "code", "duration_years", "is_active", "created_at"},
        {<<"dept_id", "academic_departments">>}) >>
T0015Down == Drops(<<"academic_programs", "academic_departments">>)
T0016Up == <<
    AddValue("tenantrole", "EVALUATOR"),
    Table("evaluator_assignments", {"id", "assignment_id", "evaluator_user_id", "assigned_by_user_id",
        "assigned_at", "is_active"}, {<<"assignment_id", "lab_assignments">>, <<"evaluator_user_id",
        "users">>, <<"assigned_by_user_id", "users">>}) >>
T0016Down == <<Drop("evaluator_assignments")>>
T0017Up == <<Add("exam_papers", {"failure_reason"}, {})>>
T0017Down == <<Lose("exam_papers", {"failure_reason"})>>
T0018Up == <<
    Table("acad_departments", {"id", "name", "code", "description", "is_active", "created_at", "updated_at"},
        {}),
    Table("acad_programs", {"id", "department_id", "name", "code", "degree_type", "duration_years",
        "is_active", "created_at", "updated_at"}, {<<"department_id", "acad_departments">>}),
    Table("acad_batches", {"id", "program_id", "name", "start_year", "end_year", "is_active", "created_at",
        "updated_at"}, {<<"program_id", "acad_programs">>}),
    Table("acad_semesters", {"id", "batch_id", "number", "label", "start_date", "end_date", "is_active",
        "created_at"}, {<<"batch_id", "acad_batches">>}),
    Table("acad_sections", {"id", "semester_id", "name", "max_strength", "is_active", "created_at"},
        {<<"semester_id", "acad_semesters">>}) >>
T0018Down == Drops(<<"acad_sections", "acad_semesters", "acad_batches", "acad_programs", "acad_departments">>)
T0019Up == <<Table("acad_enrollments", {"id", "student_id", "section_id", "enrolled_at", "is_active"},
    {<<"section_id", "acad_sections">>})>>
T0019Down == <<Drop("acad_enrollments")>>
T0020Up == <<
    Rename("academic_departments", "_legacy_academic_departments"),
    Rename("academic_programs", "_legacy_academic_programs") >>
T0020Down == <<Rename("_legacy_academic_programs", "academic_programs"),
    Rename("_legacy_academic_departments", "academic_departments")>>
T0021Up == <<Add("programs", {"acad_program_id"}, {<<"acad_program_id", "acad_programs">>})>>
T0021Down == <<Lose("programs", {"acad_program_id"})>>
T0022Up == <<Table("subject_assignments", {"id", "course_id", "faculty_user_id", "semester_id",
    "assigned_by_user_id", "assigned_at", "is_active", "role_in_course", "revoked_at", "revoked_by_user_id"},
    {<<"course_id", "courses">>, <<"semester_id", "acad_semesters">>})>>
T0022Down == <<Drop("subject_assignments")>>
T0023Up == <<
    Update("syllabi", "status", "FACULTY_APPROVED", "DEAN_APPROVED"),
    Update("syllabi", "status", "ADMIN_LOCKED", "DEAN_LOCKED") >>
T0023Down == <<Update("syllabi", "status", "DEAN_APPROVED", "FACULTY_APPROVED"), Update("syllabi", "status",
    "DEAN_LOCKED", "ADMIN_LOCKED")>>
T0024Up == <<
    Add("exam_papers", {"exam_workflow", "section_config", "co_coverage_report", "unit_coverage_report",
        "scrutinizer_id", "scrutinized_at", "scrutinizer_comment"}, {}),
    Add("exam_questions", {"section_label", "choice_group", "co_ids"}, {}),
    Add("blooms_compliance_reports", {"co_coverage_ok", "unit_coverage_ok"}, {}),
    Table("question_bank", {"id", "course_id", "source_paper_id", "unit_number", "co_ids", "bloom_level",
        "question_type", "question_text", "options", "correct_option", "marks", "model_answer",
        "marking_scheme", "section_label", "is_approved", "usage_count", "ai_generated", "created_at",
        "updated_at"}, {<<"source_paper_id", "exam_papers">>}),
    Table("internal_marks_summary", {"id", "student_id", "course_id", "semester", "academic_year",
        "internal1_marks", "internal2_marks", "assignment_marks", "attendance_marks", "total_internal",
        "max_internal", "status", "submitted_by", "submitted_at", "locked_by", "locked_at", "created_at",
        "updated_at"}, {}) >>
T0024Down == <<Drop("internal_marks_summary"), Drop("question_bank"), Lose("blooms_compliance_reports",
    {"unit_coverage_ok", "co_coverage_ok"}), Lose("exam_questions", {"co_ids", "choice_group",
    "section_label"}), Lose("exam_papers", {"scrutinizer_comment", "scrutinized_at", "scrutinizer_id",
    "unit_coverage_report", "co_coverage_report", "section_config", "exam_workflow"})>>
T0025Up == <<
    Table("scanned_script_batches", {"id", "exam_paper_id", "uploaded_by", "label", "file_count",
        "processed_count", "status", "created_at", "updated_at"}, {}),
    Add("exam_papers", {"double_evaluation_enabled", "discrepancy_threshold_pct"}, {}),
    Add("scanned_scripts", {"ocr_quality_score", "scan_quality_flags", "batch_id", "duplicate_of",
        "page_image_keys"}, {<<"batch_id", "scanned_script_batches">>}),
    Add("script_evaluations", {"keyword_hits", "rubric_mapping", "ai_confidence", "page_range",
        "board_adjusted_marks", "board_adjustment_note"}, {}),
    Add("exam_score_ledger", {"has_board_adjustment"}, {}) >>
T0025DownColumns == <<Lose("exam_score_ledger", {"has_board_adjustment"}), Lose("script_evaluations",
    {"board_adjustment_note", "board_adjusted_marks", "page_range", "ai_confidence", "rubric_mapping",
    "keyword_hits"}), Lose("scanned_scripts", {"page_image_keys", "duplicate_of", "batch_id",
    "scan_quality_flags", "ocr_quality_score"}), Lose("exam_papers", {"discrepancy_threshold_pct",
    "double_evaluation_enabled"})>>
\* Mutant: the batches go before the column that refers to them.
T0025DownMutant == <<Drop("scanned_script_batches")>> \o T0025DownColumns
T0025Down == T0025DownColumns \o <<Drop("scanned_script_batches")>>
T0026Up == <<Add("lab_assignments", {"instructions"}, {})>>
T0026Down == <<Lose("lab_assignments", {"instructions"})>>
T0027Up == <<Add("users", {"acad_program_id"}, {<<"acad_program_id", "acad_programs">>})>>
T0027Down == <<Lose("users", {"acad_program_id"})>>
T0028Up == <<
    Table("sis_schools", {"id", "code", "name", "description", "is_active", "created_at", "updated_at"}, {}),
    Add("acad_departments", {"school_id"}, {<<"school_id", "sis_schools">>}) >>
T0028Down == <<Lose("acad_departments", {"school_id"}), Drop("sis_schools")>>
T0029Up == <<Table("sis_student_profiles", {"user_id", "usn", "admission_year", "date_of_birth", "phone",
    "address_line1", "address_city", "address_state", "emergency_contact_name", "emergency_contact_phone",
    "photo_url", "notes", "is_active", "created_at", "updated_at"}, {<<"user_id", "users">>})>>
T0029Down == <<Drop("sis_student_profiles")>>
T0030Up == <<Table("sis_faculty_profiles", {"user_id", "employee_id", "designation", "qualifications", "bio",
    "office_location", "phone", "joining_date", "specialization", "primary_department_id", "photo_url",
    "is_active", "created_at", "updated_at"}, {<<"user_id", "users">>, <<"primary_department_id",
    "acad_departments">>})>>
T0030Down == <<Drop("sis_faculty_profiles")>>
T0031Up == <<
    Table("sis_attendance_sessions", {"id", "course_id", "section_id", "faculty_user_id", "session_date",
        "period_number", "duration_minutes", "topic_covered", "status", "first_marked_at", "locked_at",
        "reopened_by", "reopened_at", "reopen_reason", "created_at", "updated_at"}, {<<"course_id",
        "courses">>, <<"section_id", "acad_sections">>}),
    Table("sis_attendance_records", {"id", "session_id", "student_id", "status", "remarks", "marked_by",
        "marked_at", "edited_by", "edited_at", "edit_reason"}, {<<"session_id", "sis_attendance_sessions">>}) >>
T0031Down == Drops(<<"sis_attendance_records", "sis_attendance_sessions">>)
T0032Up == <<
    Table("sis_marks_components", {"id", "course_id", "section_id", "semester_id", "created_by",
        "component_type", "name", "max_marks", "weightage", "due_date", "display_order", "status",
        "published_at", "locked_at", "locked_by", "reopened_by", "reopened_at", "reopen_reason", "is_active",
        "created_at", "updated_at"}, {<<"course_id", "courses">>, <<"section_id", "acad_sections">>,
        <<"semester_id", "acad_semesters">>}),
    Table("sis_marks_entries", {"id", "component_id", "student_id", "marks_obtained", "remarks", "marked_by",
        "marked_at", "edited_by", "edited_at", "edit_reason", "created_at", "updated_at"}, {<<"component_id",
        "sis_marks_components">>}) >>
T0032Down == Drops(<<"sis_marks_entries", "sis_marks_components">>)
T0033Up == <<
    Table("sis_hall_ticket_batches", {"id", "semester_id", "scope", "scope_ref_id", "generated_by",
        "generated_at", "ticket_count", "ticket_prefix", "notes", "created_at"}, {<<"semester_id",
        "acad_semesters">>}),
    Table("sis_hall_ticket_eligibility", {"id", "student_id", "semester_id", "publish_status", "status",
        "computed_at", "attendance_threshold_used", "computed_academic_year", "computed_semester_name",
        "attendance_pct", "has_shortage", "marks_all_locked", "marks_all_filled", "failure_reasons",
        "override_by", "override_at", "override_reason", "override_status", "batch_id", "hall_ticket_number",
        "exam_session_id", "exam_schedule_id", "exam_center_id", "room_number", "seat_number", "created_at",
        "updated_at"}, {<<"semester_id", "acad_semesters">>, <<"batch_id", "sis_hall_ticket_batches">>}) >>
T0033Down == Drops(<<"sis_hall_ticket_eligibility", "sis_hall_ticket_batches">>)
T0034Up == <<
    Table("sis_exam_centers", {"id", "center_code", "center_name", "address", "capacity", "is_internal",
        "is_active", "created_at", "updated_at"}, {}),
    Table("sis_exam_sessions", {"id", "semester_id", "session_type", "session_name", "academic_year",
        "start_date", "end_date", "status", "notes", "source_exam_session_id", "attempt_number",
        "hall_ticket_generated_at", "hall_ticket_generated_by", "created_by", "created_at", "updated_at"},
        {<<"semester_id", "acad_semesters">>, <<"source_exam_session_id", "sis_exam_sessions">>}),
    Table("sis_exam_schedules", {"id", "session_id", "course_id", "section_id", "center_id", "exam_date",
        "start_time", "end_time", "room_number", "notes", "created_by", "created_at", "updated_at"},
        {<<"session_id", "sis_exam_sessions">>, <<"course_id", "courses">>, <<"section_id", "acad_sections">>,
        <<"center_id", "sis_exam_centers">>}),
    Table("sis_exam_invigilation", {"id", "session_id", "schedule_id", "center_id", "room_number",
        "faculty_user_id", "assigned_by", "notes", "created_at"}, {<<"session_id", "sis_exam_sessions">>,
        <<"schedule_id", "sis_exam_schedules">>, <<"center_id", "sis_exam_centers">>}) >>
T0034Down == Drops(<<"sis_exam_invigilation", "sis_exam_schedules", "sis_exam_sessions", "sis_exam_centers">>)
T0035Up == <<
    Table("sis_grading_policies", {"id", "name", "program_id", "pass_percentage", "is_default", "is_active",
        "created_by", "created_at", "updated_at"}, {}),
    Table("sis_grading_policy_bands", {"id", "policy_id", "grade_letter", "min_percentage", "max_percentage",
        "grade_point", "is_pass", "display_order", "created_at"}, {<<"policy_id", "sis_grading_policies">>}),
    Table("sis_result_declarations", {"id", "exam_session_id", "semester_id", "snapshot_academic_year",
        "snapshot_semester_name", "snapshot_grading_policy_name", "declaration_type", "source_declaration_id",
        "grading_policy_id", "title", "notes", "internal_marks_required", "status", "verified_by",
        "verified_at", "published_by", "published_at", "locked_by", "locked_at", "created_by", "created_at",
        "updated_at"}, {<<"exam_session_id", "sis_exam_sessions">>, <<"semester_id", "acad_semesters">>,
        <<"grading_policy_id", "sis_grading_policies">>, <<"source_declaration_id",
        "sis_result_declarations">>}),
    Table("sis_external_marks", {"id", "declaration_id", "student_id", "course_id", "section_id",
        "external_marks_obtained", "external_marks_max", "is_absent", "attempt_number", "entered_by",
        "entered_at", "edited_by", "edited_at", "edit_reason", "created_at", "updated_at"},
        {<<"declaration_id", "sis_result_declarations">>, <<"course_id", "courses">>, <<"section_id",
        "acad_sections">>}),
    Table("sis_subject_results", {"id", "declaration_id", "student_id", "course_id", "section_id",
        "semester_id", "internal_marks", "external_marks", "grace_marks", "total_marks", "max_marks",
        "percentage", "grade_letter", "grade_point", "is_pass", "result_status", "credits_attempted",
        "credits_earned", "attempt_number", "computed_at", "created_at", "updated_at"}, {<<"declaration_id",
        "sis_result_declarations">>, <<"course_id", "courses">>, <<"section_id", "acad_sections">>,
        <<"semester_id", "acad_semesters">>}),
    Table("sis_semester_results", {"id", "declaration_id", "student_id", "semester_id", "sgpa", "cgpa",
        "total_credits_attempted", "total_credits_earned", "overall_result_status", "section_rank",
        "program_rank", "computed_at", "created_at", "updated_at"}, {<<"declaration_id",
        "sis_result_declarations">>, <<"semester_id", "acad_semesters">>}),
    Table("sis_grace_marks_log", {"id", "declaration_id", "subject_result_id", "student_id", "course_id",
        "grace_marks_applied", "reason", "authorized_by", "authorized_at", "revoked_by", "revoked_at",
        "revoke_reason", "created_at"}, {<<"declaration_id", "sis_result_declarations">>,
        <<"subject_result_id", "sis_subject_results">>}) >>
T0035Down == Drops(<<"sis_grace_marks_log", "sis_semester_results", "sis_subject_results",
    "sis_external_marks", "sis_result_declarations", "sis_grading_policy_bands", "sis_grading_policies">>)

----------------------------------------------------------------------------
\* Linear: each revision names the one before it as its down_revision.
PublicChain ==
    <<[up |-> P0001Up, down |-> P0001Down], [up |-> P0002Up, down |-> P0002Down], [up |-> P0003Up, down |->
    P0003Down], [up |-> P0004Up, down |-> P0004Down], [up |-> P0005Up, down |-> P0005Down], [up |-> P0006Up,
    down |-> P0006Down], [up |-> P0007Up, down |-> P0007Down], [up |-> P0008Up, down |-> P0008Down], [up |->
    P0009Up, down |-> P0009Down], [up |-> P0010Up, down |-> P0010Down], [up |-> P0011Up, down |-> P0011Down]>>

TenantChain ==
    <<[up |-> T0001Up, down |-> T0001Down], [up |-> T0002Up, down |-> T0002Down], [up |-> T0003Up, down |->
    T0003Down], [up |-> T0004Up, down |-> T0004Down], [up |-> T0005Up, down |-> T0005Down], [up |-> T0006Up,
    down |-> T0006Down], [up |-> T0007Up, down |-> T0007Down], [up |-> T0008Up, down |-> T0008Down], [up |->
    T0009Up, down |-> T0009Down], [up |-> T0010Up, down |-> T0010Down], [up |-> T0011Up, down |-> T0011Down],
    [up |-> T0012Up, down |-> T0012Down], [up |-> T0013Up, down |-> T0013Down], [up |-> T0014Up, down |->
    T0014Down], [up |-> T0015Up, down |-> T0015Down], [up |-> T0016Up, down |-> T0016Down], [up |-> T0017Up,
    down |-> T0017Down], [up |-> T0018Up, down |-> T0018Down], [up |-> T0019Up, down |-> T0019Down], [up |->
    T0020Up, down |-> T0020Down], [up |-> T0021Up, down |-> T0021Down], [up |-> T0022Up, down |-> T0022Down],
    [up |-> T0023Up, down |-> T0023Down], [up |-> T0024Up, down |-> T0024Down], [up |-> T0025Up, down |->
    T0025Down], [up |-> T0026Up, down |-> T0026Down], [up |-> T0027Up, down |-> T0027Down], [up |-> T0028Up,
    down |-> T0028Down], [up |-> T0029Up, down |-> T0029Down], [up |-> T0030Up, down |-> T0030Down], [up |->
    T0031Up, down |-> T0031Down], [up |-> T0032Up, down |-> T0032Down], [up |-> T0033Up, down |-> T0033Down],
    [up |-> T0034Up, down |-> T0034Down], [up |-> T0035Up, down |-> T0035Down]>>
=============================================================================
