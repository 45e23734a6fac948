------------------------------ MODULE MCNotebooks ------------------------------
\* Small instances of the notebooks: few rows, few amounts, the eight models of
\* the comparison that are not blends.
EXTENDS Notebooks

MCMasterModels ==
  <<"KIEU_LGBM_V1", "KIEU_LGBM_V6", "DUONG_RF", "NAM_DT6", "NAM_DT10",
    "HOANG_XGB13", "HOANG_XGB25", "HOANG_XGB36">>
==============================================================================
